---- MODULE Spec2Model ----
(***************************************************************************)
(* A model of PyUIWizard (src/pyuiwizard.py): the reactive Stream, the     *)
(* FunctionalDiffer / FunctionalPatcher pair, the useState hook store and  *)
(* the render scheduler (PyUIWizard.render_app.trigger_rerender).          *)
(*                                                                         *)
(* Ten specifications share the variables:                                 *)
(*   StreamSpec  one Stream with one recording subscriber                  *)
(*   DiffSpec    diff(old, new) followed by apply_patches on the widgets   *)
(*               and on the hook store of the components of the trees      *)
(*   DifferSpec  the diffs of one FunctionalDiffer, with its caches        *)
(*   Spec        the scheduler, the hook store and the render trigger      *)
(*   HookSpec    the hooks of two components over some render passes       *)
(*   OperatorSpec  two source streams and one operator applied to them     *)
(*   CacheSpec   the tree cache of _create_vdom over some passes            *)
(*   ExpandSpec  the expansion of the components of one tree                *)
(*   ClearSpec   the passes of HookSpec, then clear_component_state()       *)
(*   LifecycleSpec  class components, rendered and cleared                  *)
(* Each specification leaves the variables it does not use untouched.      *)
(***************************************************************************)
EXTENDS Integers, Sequences, FiniteSets, TLC

\* ------------------------------------------------------------------------
\* Bounds of the model and constants of the program
\* ------------------------------------------------------------------------

\* time.time() at start-up, in ms: far from _last_render_time = 0 and
\* _throttle_last = 0, as the epoch clock is
Epoch == 32
\* the clock advances in steps of TickMs up to Epoch + Horizon
TickMs == 8
Horizon == 40
\* Stream.set calls issued on the stream under test
MaxSets == 3
\* values handed to Stream.set: 1..MaxVal
MaxVal == 3
\* the 60 fps frame interval, 0.016 s, in ms
FrameMs == 16
\* ('debounce', 0.016) of the ui pipeline, in ms
DebounceDelay == 16
\* a throttle delay a caller may configure, in ms
ThrottleDelay == 16
\* self._backpressure_limit
BackpressureLimit == 1000
\* children of the root frame of a tree
MaxChildren == 3

NoTimer == 0

\* setState calls issued by the worker thread
MaxCalls == 3
\* the effect of the component counts up to EffectCap and then rests
EffectCap == 3
\* render passes of HookSpec
MaxPasses == 2
\* render triggers fired by the event handlers of HookSpec
MaxTriggers == 1
\* hooks called outside a component in HookSpec
MaxOutside == 1
\* render passes of HookSpec in which a component fails
MaxFailures == 1
\* calls of FunctionalDiffer.diff in DifferSpec
MaxDiffs == 2
\* sets of the source streams in OperatorSpec
MaxOpSets == 3
\* renders of class components, and clear_component_state(path) calls
MaxClassRenders == 3
MaxPathClears == 2
\* render passes and forced updates in CacheSpec
MaxCreates == 5
\* no entry for the slot in a thread's hook store
NoSlot == -1
\* last_vdom = None, and an empty window
NoVdom == -2
\* no setState has set the stream yet
NotSet == -3
ErrorVdom == -4
MAX_DEPTH == 100
CacheablePatches == 50
NoFunction == "None"

VARIABLES
    now,              \* time.time(), ms
    \* ---- one Stream (class Stream) ----
    value,            \* self._value
    pending_values,   \* self._pending_values
    subscribers,      \* self._subscribers
    disposed,         \* self._disposed
    debounce_delay,   \* self._debounce_delay
    debounce_timer,   \* self._debounce_timer: the id of a timer, or NoTimer
    throttle_delay,   \* self._throttle_delay
    throttle_last,    \* self._throttle_last
    timers,           \* the threading.Timer objects that were started and can still run
    timerSeq,         \* timers created so far
    notified,         \* what the subscriber has been called with, in order
    setLog,           \* the set calls issued: <<time, value>>, in order
    \* ---- one diff and its application (FunctionalDiffer, FunctionalPatcher) ----
    old_vdom,         \* the tree on the screen (PyUIWizard.last_vdom)
    new_vdom,         \* the tree of the new pass
    patches,          \* the result of differ.diff(old_vdom, new_vdom)
    widgets,          \* the Tk widgets and the patcher's maps
    diff_pc,          \* "rendered", "diffed", "patched"; "idle" outside DiffSpec
    differ,           \* the FunctionalDiffer: stats['diffs'], patch_cache, memo
    \* ---- the hook store and the scheduler (useState, PyUIWizard.render_app) ----
    render_function,  \* self.render_function: NoFunction before render_app
    hook_state,       \* per thread, _component_state_manager.state: the value of
                      \* the Stream of the one useState slot, or NoSlot
    render_trigger,   \* self._render_trigger.value
    update_queue,     \* len(self._component_update_queue)
    render_scheduled, \* self._render_scheduled
    last_render_time, \* self._last_render_time, ms
    after_queue,      \* the due times of root.after(16, delayed_render) callbacks
    last_vdom,        \* self.last_vdom: the counter it shows, or NoVdom
    screen,           \* the counter on the label in the window, or NoVdom
    render_count,     \* renderer.render_count
    stack,            \* per thread, its call stack of setState and pass frames
    callLog,          \* the setState calls of the worker thread:
                      \* <<time, render_count>> at the call, in order
    lastSet,          \* the value of the latest stream.set of a setState, or NotSet
    widget_threads,   \* the threads that have run renderer and widget operations
    \* ---- the hooks of two components ----
    mgr,              \* _get_state_manager() of the main thread and its objects
    thread_local,     \* per worker thread, its _get_state_manager() and registry
    pass_thread,      \* the thread of the latest render pass or trigger
    hook_pc,          \* "idle", "triggered", "expanded"; "off" outside HookSpec
    use_diffing,      \* PyUIWizard.use_diffing
    rendered,         \* per pass, what the hooks returned to each component
    ran,              \* per pass that has completed, the effects that were called
    outside,          \* the latest hook call made outside a component
    errors,           \* the exceptions caught, in order: the entries of
                      \* ERROR_BOUNDARY.errors, and with stream "pass" those
                      \* the except clause of a render pass has printed
    \* ---- two source streams and the stream an operator has derived ----
    net,              \* the streams, their subscribers and what these were
                      \* called with
    \* ---- the tree cache and the hook stores of three threads ----
    vcache,           \* VDOMCache.cache, last_vdom, the stores of the threads
                      \* and the latest call of _create_vdom
    \* ---- component expansion ----
    expansion,        \* the tree of the render function, the expanded tree
                      \* and the components rendered with their paths
    \* ---- class components ----
    lifecycle         \* mgr.component_instances and the calls of on_mount
                      \* and on_unmount

streamVars == <<value, pending_values, subscribers, disposed, debounce_delay,
                debounce_timer, throttle_delay, throttle_last, timers, timerSeq,
                notified, setLog>>

diffVars == <<old_vdom, new_vdom, patches, widgets, diff_pc, differ>>

schedVars == <<render_function, hook_state, render_trigger, update_queue,
               render_scheduled, last_render_time, after_queue, last_vdom, screen,
               render_count, stack, callLog, lastSet, widget_threads>>

hookVars == <<mgr, thread_local, pass_thread, hook_pc, use_diffing, rendered, ran,
              outside, errors>>

opVars == <<net, vcache, expansion, lifecycle>>

vars == <<now, streamVars, diffVars, schedVars, hookVars, opVars>>

\* the threads of the program: the Tk main thread and a worker
Threads == {"ui", "worker"}
Bg == Threads \ {"ui"}

\* the variables of the scheduler outside Spec, and before render_app
SchedIdle ==
    /\ render_function = NoFunction
    /\ hook_state = [t \in Threads |-> NoSlot]
    /\ render_trigger = 0
    /\ update_queue = 0
    /\ render_scheduled = FALSE
    /\ last_render_time = 0
    /\ after_queue = <<>>
    /\ last_vdom = NoVdom
    /\ screen = NoVdom
    /\ render_count = 0
    /\ stack = [t \in Threads |-> <<>>]
    /\ callLog = <<>>
    /\ lastSet = NotSet
    /\ widget_threads = {}

\* ------------------------------------------------------------------------
\* Trees, paths and patches
\* ------------------------------------------------------------------------

\* Python values are tagged with their type; s is what str() returns
None == [t |-> "NoneType", s |-> "None"]
IntVal(str) == [t |-> "int", s |-> str]
StrVal(str) == [t |-> "str", s |-> str]
Str(v) == v.s
\* values that are no scalars: a function, and a list and a tuple of the
\* same items
FuncVal == [t |-> "function", s |-> "<function f>"]
ListVal == [t |-> "list", s |-> "[1, 2]"]
TupleVal == [t |-> "tuple", s |-> "(1, 2)"]

\* node['key'] of a node made by create_element without a key: None
NoKey == "None"
Keys == {"a", "b", "c"}

\* props are total over PropNames; None stands for "not in the dict", as
\* dict.get reads it (no prop of the trees below is None itself)
PropOrder == <<"text", "onClick", "font">>
PropNames == {PropOrder[i] : i \in 1..Len(PropOrder)}
NoProps == [k \in PropNames |-> None]

\* create_element(element_type, props, *children)
Node(type, key, props, children) ==
    [type |-> type, key |-> key, props |-> props, children |-> children]

\* the absent tree (Python None): old_vdom before the first render
Absent == Node("None", NoKey, NoProps, <<>>)

\* the elements of a path: a child index, a child key, or None (the key of an
\* unkeyed create_element node, which the renderer uses as a path element)
Idx(i) == [k |-> "int", i |-> i, s |-> ""]
Key(s) == [k |-> "str", i |-> 0, s |-> s]
NoneSel == [k |-> "NoneType", i |-> 0, s |-> ""]
\* child['key'] as a path element
KeySel(key) == IF key = NoKey THEN NoneSel ELSE Key(key)

\* patches: one record shape; the fields a patch type does not carry keep the
\* values of NoPatch
NoPatch ==
    [type |-> "NONE", path |-> <<>>, old |-> Absent, node |-> Absent,
     changed |-> NoProps, removed |-> <<>>, key |-> NoKey, from_index |-> 0, to_index |-> 0]
RemovePatch(path, old) == [NoPatch EXCEPT !.type = "REMOVE", !.path = path, !.old = old]
CreatePatch(path, node) == [NoPatch EXCEPT !.type = "CREATE", !.path = path, !.node = node]
ReplacePatch(path, old, new) ==
    [NoPatch EXCEPT !.type = "REPLACE", !.path = path, !.old = old, !.node = new]
UpdatePatch(path, changed, removed) ==
    [NoPatch EXCEPT !.type = "UPDATE", !.path = path, !.changed = changed, !.removed = removed]
MovePatch(path, key, from_index, to_index) ==
    [NoPatch EXCEPT !.type = "MOVE", !.path = path, !.key = key,
                    !.from_index = from_index, !.to_index = to_index]

\* the trees of the model: a frame with up to MaxChildren leaves; a key names
\* one child among its siblings
Leaves ==
    {Node("label", k, [NoProps EXCEPT !["text"] = StrVal("x")], <<>>) : k \in Keys} \cup
    {Node("label", "a", [NoProps EXCEPT !["text"] = StrVal("y")], <<>>),
     Node("button", "a", [NoProps EXCEPT !["text"] = StrVal("x")], <<>>),
     Node("label", NoKey, [NoProps EXCEPT !["text"] = IntVal("1")], <<>>)}

\* single nodes that differ in their props: the text 1 or "1", with or
\* without a handler, the font a list or a tuple
PropNodes ==
    {Node("label", NoKey, [text |-> text, onClick |-> handler, font |-> font], <<>>) :
        text \in {StrVal("1"), IntVal("1")}, handler \in {None, FuncVal},
        font \in {ListVal, TupleVal}}

ChildLists == UNION {[1..n -> Leaves] : n \in 0..MaxChildren}

UniqueKeys(cs) ==
    \A i, j \in 1..Len(cs) : (i # j /\ cs[i].key # NoKey) => cs[i].key # cs[j].key

Trees == {Node("frame", NoKey, NoProps, cs) : cs \in {c \in ChildLists : UniqueKeys(c)}}

\* ------------------------------------------------------------------------
\* The hooks and their store  (useState, useEffect, useRef, useContext,
\* Context, clear_component_state of src/pyuiwizard.py)
\* ------------------------------------------------------------------------

\* dicts as functions
EmptyMap == [x \in {} |-> 0]
Put(m, k, v) == (k :> v) @@ m
Del(m, k) == [x \in DOMAIN m \ {k} |-> m[x]]

\* str(n) of a hook ordinal
IdxStr(n) == <<"0", "1", "2", "3", "4", "5", "6", "7", "8", "9">>[n + 1]

\* the keys of mgr.state. useState and useRef use the tuple
\* (path_tuple, id); useContext stores its subscription under a plain
\* string, whose element 0 is the character 'c' and never a tuple
TupleKey(path_tuple, id) == [tuple |-> TRUE, k0 |-> path_tuple, k1 |-> id]
StringKey(str) == [tuple |-> FALSE, k0 |-> <<>>, k1 |-> str]

\* state_id = key if key else f"hook_{hook_index}"
StateId(key, hook_index) ==
    IF key # NoKey THEN <<key>> ELSE <<"hook", IdxStr(hook_index)>>
\* f"ref_{path_tuple}_{hook_index}" and f"ctx_sub_{path_tuple}_{hook_index}"
PathId(prefix, path_tuple, hook_index) ==
    <<prefix>> \o [i \in 1..Len(path_tuple) |-> path_tuple[i].s] \o <<IdxStr(hook_index)>>

\* the entries of mgr.state, in one record shape: a useState entry holds
\* 'stream', 'initial' and 'key' and no 'type'
NoObject == 0
StateSlot(stream, initial) ==
    [type |-> "None", stream |-> stream, ref |-> NoObject, unsubscribe |-> NoObject,
     initial |-> initial]
RefSlot(ref, initial) ==
    [type |-> "useRef", stream |-> NoObject, ref |-> ref, unsubscribe |-> NoObject,
     initial |-> initial]
\* 'unsubscribe' removes the callback, named by the stream it sets
ContextSlot(callback) ==
    [type |-> "useContext", stream |-> NoObject, ref |-> NoObject,
     unsubscribe |-> callback, initial |-> 0]

\* Context.default_value of the one context of the model, and the key
\* f"context_{id(context)}" of its useState
DefaultValue == 0
ContextKey == "context_1"
\* registry.contexts holds no value for the context
NoContext == -1

\* The state manager of one thread together with the objects it refers to:
\* state, current_path, hook_index and effect_queue of _get_state_manager();
\* the Stream and RefObject objects by number; _subscribers of the context
\* (each update_context by the stream its set_value sets); contexts of
\* _get_context_registry(); the render trigger; what the last hook returned
\* and whether it raised
EmptyManager ==
    [state |-> EmptyMap, current_path |-> <<>>, hook_index |-> 0, effect_queue |-> <<>>,
     streams |-> <<>>, refs |-> <<>>, subscribers |-> <<>>, contexts |-> NoContext,
     render_trigger |-> 0, ret |-> 0, exc |-> "None"]

\* threading.local: the attributes of _component_state_manager and of
\* _context_registry, which every thread has for itself
LocalOf(m) ==
    [state |-> m.state, current_path |-> m.current_path, hook_index |-> m.hook_index,
     effect_queue |-> m.effect_queue, contexts |-> m.contexts]
\* _get_state_manager() and _get_context_registry() on a thread that has
\* not called them before
EmptyLocal == LocalOf(EmptyManager)
\* the objects of m with the thread-local attributes l
Bind(m, l) ==
    [m EXCEPT !.state = l.state, !.current_path = l.current_path,
              !.hook_index = l.hook_index, !.effect_queue = l.effect_queue,
              !.contexts = l.contexts]

\* raise RuntimeError(...): the hook returns nothing and changes nothing
Raise(m) == [m EXCEPT !.exc = "RuntimeError"]

\* Stream(initial_value)
NewStream(v) == [value |-> v, disposed |-> FALSE]

\* useState: the entry of the slot is made on first use
CreateStateSlot(m, full_state_id, initial_value) ==
    IF full_state_id \in DOMAIN m.state
    THEN m
    ELSE [m EXCEPT !.streams = Append(@, NewStream(initial_value)),
                   !.state = Put(@, full_state_id,
                                 StateSlot(Len(m.streams) + 1, initial_value))]

\* useState: current_value = stream.value; mgr.hook_index = hook_index + 1
ReadStateSlot(m, full_state_id) ==
    [m EXCEPT !.ret = m.streams[m.state[full_state_id].stream].value,
              !.hook_index = @ + 1]

\* a variant of useState that does not look at the render path
useStateAnywhere(m, initial_value, key) ==
    ReadStateSlot(
        CreateStateSlot(m, TupleKey(m.current_path, StateId(key, m.hook_index)),
                        initial_value),
        TupleKey(m.current_path, StateId(key, m.hook_index)))

\* useState(initial_value, key): its return value is the current value; the
\* setter it returns sets the stream of the slot
useState(m, initial_value, key) ==
    IF m.exc # "None" THEN m
    ELSE IF m.current_path = <<>> THEN Raise(m)
    ELSE ReadStateSlot(
             CreateStateSlot(m, TupleKey(m.current_path, StateId(key, m.hook_index)),
                             initial_value),
             TupleKey(m.current_path, StateId(key, m.hook_index)))

\* the setter of useState called with a value: nothing when the value is
\* the current one, else stream.set (which a disposed stream ignores) and
\* the render trigger
setState(m, stream, new_value) ==
    IF m.streams[stream].value = new_value
    THEN m
    ELSE [m EXCEPT !.streams[stream].value =
                       IF m.streams[stream].disposed THEN @ ELSE new_value,
                   !.render_trigger = @ + 1]

\* the dependencies handed to useEffect: omitted, or a list
NoDeps == [given |-> FALSE, list |-> <<>>]
Deps(list) == [given |-> TRUE, list |-> list]

\* useEffect(effect_func, dependencies)
useEffect(m, effect_func, dependencies) ==
    IF m.exc # "None" THEN m
    ELSE IF m.current_path = <<>> THEN Raise(m)
    ELSE [m EXCEPT !.effect_queue =
                       Append(@, [func |-> effect_func, deps |-> dependencies,
                                  path |-> m.current_path,
                                  hook_index |-> m.hook_index]),
                   !.hook_index = @ + 1]

\* useRef: the entry of the cell is made on first use
CreateRefSlot(m, full_id, initial_value) ==
    IF full_id \in DOMAIN m.state
    THEN m
    ELSE [m EXCEPT !.refs = Append(@, initial_value),
                   !.state = Put(@, full_id, RefSlot(Len(m.refs) + 1, initial_value))]

ReadRefSlot(m, full_id) ==
    [m EXCEPT !.ret = m.state[full_id].ref, !.hook_index = @ + 1]

\* useRef(initial_value): its return value is the cell object, by number
useRef(m, initial_value) ==
    IF m.exc # "None" THEN m
    ELSE IF m.current_path = <<>> THEN Raise(m)
    ELSE ReadRefSlot(
             CreateRefSlot(m, TupleKey(m.current_path,
                                       PathId("ref", m.current_path, m.hook_index)),
                           initial_value),
             TupleKey(m.current_path, PathId("ref", m.current_path, m.hook_index)))

\* Context.get
ContextGet(m) == IF m.contexts = NoContext THEN DefaultValue ELSE m.contexts

\* Context.set: the value goes to the registry and every subscriber is
\* called; a subscriber is the update_context of a useContext
RECURSIVE CallSubscribers(_, _, _)
CallSubscribers(m, callbacks, v) ==
    IF callbacks = <<>>
    THEN m
    ELSE CallSubscribers(setState(m, Head(callbacks), v), Tail(callbacks), v)
ContextSet(m, v) == CallSubscribers([m EXCEPT !.contexts = v], m.subscribers, v)

\* useContext after its useState: "Subscribe once" under the string key
\* sub_id, then hook_index += 1; the value useState returned is returned
SubscribeOnce(m, path_tuple, sub_id) ==
    IF sub_id \in DOMAIN m.state
    THEN [m EXCEPT !.hook_index = @ + 1]
    ELSE [m EXCEPT !.subscribers =
                       Append(@, m.state[TupleKey(path_tuple, <<ContextKey>>)].stream),
                   !.state = Put(@, sub_id, ContextSlot(
                                 m.state[TupleKey(path_tuple, <<ContextKey>>)].stream)),
                   !.hook_index = @ + 1]

SubscribeAfterUseState(m) ==
    SubscribeOnce(m, m.current_path,
                  StringKey(PathId("ctx_sub", m.current_path, m.hook_index)))

\* useContext(context)
useContext(m) ==
    IF m.exc # "None" THEN m
    ELSE IF m.current_path = <<>> THEN Raise(m)
    ELSE SubscribeAfterUseState(useState(m, ContextGet(m), ContextKey))

\* ref.current = None
NoneValue == -1

\* clear_component_state(component_path = path) on one entry: a stream is
\* disposed, else the cell of a useRef is emptied
DisposeSlot(m, slot) ==
    IF slot.stream # NoObject
    THEN [m EXCEPT !.streams[slot.stream].disposed = TRUE]
    ELSE IF slot.type = "useRef"
         THEN [m EXCEPT !.refs[slot.ref] = NoneValue]
         ELSE m

RECURSIVE DisposeSlots(_, _)
DisposeSlots(m, keys) ==
    IF keys = {}
    THEN m
    ELSE DisposeSlots(DisposeSlot(m, m.state[CHOOSE k \in keys : TRUE]),
                      keys \ {CHOOSE k \in keys : TRUE})

\* keys_to_remove: the entries whose key[0] equals tuple(component_path)
KeysToRemove(m, component_path) ==
    {k \in DOMAIN m.state : k.tuple /\ k.k0 = component_path}

RemoveKeys(m, keys) == [m EXCEPT !.state = [k \in DOMAIN m.state \ keys |-> m.state[k]]]

\* clear_component_state(component_path = path), state_key = None
ClearComponentState(m, component_path) ==
    RemoveKeys(DisposeSlots(m, KeysToRemove(m, component_path)),
               KeysToRemove(m, component_path))

\* _flush_effects: the queue is copied and emptied, every effect of the
\* copy is called
FlushEffects(m) == [m EXCEPT !.effect_queue = <<>>]

\* effect['func']() of the component function below: onCount raises when
\* the count it has captured is 1, the other effects return
Throws(effect) == effect.func = "onCount" /\ effect.deps = Deps(<<1>>)

\* what ERROR_BOUNDARY.handle_error appends to errors for an effect:
\* stream_name f"effect_{effect['id']}", the id made of path and hook index
EffectError(effect) ==
    [stream |-> "effect", exc |-> "ValueError", path |-> effect.path,
     hook_index |-> effect.hook_index]

\* a variant of the loop of _flush_effects without the try: the exception
\* of an effect ends the loop
RECURSIVE FlushLoopUncaught(_, _)
FlushLoopUncaught(effects, out) ==
    IF effects = <<>>
    THEN out
    ELSE IF Throws(Head(effects))
    THEN [out EXCEPT !.called = Append(@, Head(effects))]
    ELSE FlushLoopUncaught(Tail(effects),
                           [out EXCEPT !.called = Append(@, Head(effects))])

\* the loop of _flush_effects over the copy of the queue: each effect is
\* called, and an exception goes to ERROR_BOUNDARY.handle_error, which
\* records it and returns
RECURSIVE FlushLoop(_, _)
FlushLoop(effects, out) ==
    IF effects = <<>>
    THEN out
    ELSE FlushLoop(Tail(effects),
                   [called |-> Append(out.called, Head(effects)),
                    errors |-> IF Throws(Head(effects))
                               THEN Append(out.errors, EffectError(Head(effects)))
                               ELSE out.errors])

\* the effects that _flush_effects calls on the manager m, and the errors
\* it reports
Flushing(m) == FlushLoop(m.effect_queue, [called |-> <<>>, errors |-> <<>>])

\* the components of the model: component functions with the keys "a", "b"
\* (and "c" in the trees of DiffSpec), children of an unkeyed root frame
ComponentOrder == <<"a", "b">>
Components == {ComponentOrder[i] : i \in 1..Len(ComponentOrder)}

\* _expand_vdom_components: the unkeyed root frame adds its type to the
\* path, a keyed component adds its key
ComponentPath(k) == <<Key("frame"), Key(k)>>

\* The component function:
\*   count, setCount = useState(0)
\*   cell = useRef(0)
\*   theme = useContext(ctx)
\*   useEffect(every); useEffect(once, []); useEffect(onCount, [count])
\* where onCount raises ValueError when count is 1
BodyState(m) == useState(m, 0, NoKey)
BodyRef(m) == useRef(BodyState(m), 0)
BodyContext(m) == useContext(BodyRef(m))
BodyEffects(m, count) ==
    useEffect(useEffect(useEffect(m, "every", NoDeps), "once", Deps(<<>>)),
              "onCount", Deps(<<count>>))
Body(m) == BodyEffects(BodyContext(m), BodyState(m).ret)

\* what the hooks returned to the component function, with the stream its
\* setter sets and the value the function reads from cell.current
Returned(m) ==
    [count |-> BodyState(m).ret,
     setCount |-> BodyState(m).state[TupleKey(m.current_path, StateId(NoKey, 0))].stream,
     cell |-> BodyRef(m).ret,
     current |-> BodyRef(m).refs[BodyRef(m).ret],
     theme |-> BodyContext(m).ret]

\* _with_hook_rendering: the context of the component is set, the function
\* runs, and finally the previous context is restored
Enter(m, path) == [m EXCEPT !.current_path = path, !.hook_index = 0]
WithHookRendering(m, path) ==
    [Body(Enter(m, path)) EXCEPT !.current_path = m.current_path,
                                 !.hook_index = m.hook_index]

\* trigger_rerender: mgr.current_path = []; mgr.hook_index = 0
ResetContext(m) == [m EXCEPT !.current_path = <<>>, !.hook_index = 0]

\* _expand_vdom_components over the children of the root frame: a keyed
\* child is the node a component with that key has rendered
RECURSIVE ExpandChildren(_, _)
ExpandChildren(m, children) ==
    IF children = <<>>
    THEN m
    ELSE ExpandChildren(
             IF Head(children).key # NoKey
             THEN WithHookRendering(m, ComponentPath(Head(children).key))
             ELSE m,
             Tail(children))
ExpandTree(m, vdom) == ExpandChildren(ResetContext(m), vdom.children)

\* no hook has been called outside a component
NoOutsideCall == [n |-> 0, hook |-> "None", exc |-> "None"]

\* the variables of the hooks outside HookSpec
HookIdle ==
    /\ mgr = EmptyManager
    /\ thread_local = [t \in Bg |-> EmptyLocal]
    /\ pass_thread = "ui"
    /\ hook_pc = "off"
    /\ use_diffing = TRUE
    /\ rendered = <<>>
    /\ ran = <<>>
    /\ outside = NoOutsideCall
    /\ errors = <<>>

\* ------------------------------------------------------------------------
\* Class components and clear_component_state()  (src/pyuiwizard.py,
\* _with_hook_rendering, clear_component_state, Component._unmount)
\* ------------------------------------------------------------------------

\* The keys of mgr.component_instances are strings. A string made of a
\* path is modelled by the kind of sequence that was printed, the path and
\* what follows the underscore (NoSuffix: nothing was appended):
\*   f"{str(path)}_{props.get('key', '')}" with path a list
\*   str(path_tuple)
NoSuffix == "-"
InstanceKey(path, props_key) == [repr |-> "list", path |-> path, suffix |-> props_key]
PathKey(path_tuple) == [repr |-> "tuple", path |-> path_tuple, suffix |-> NoSuffix]

\* no class component rendered yet: component_instances is empty; on_mount
\* and on_unmount count the calls of the two methods of the class placed
\* with key k, path_clears the clear_component_state(path) calls
NewLifecycle ==
    [instances |-> EmptyMap,
     on_mount |-> [k \in Components |-> 0],
     on_unmount |-> [k \in Components |-> 0],
     renders |-> 0,
     path_clears |-> <<>>]
LifecycleIdle == lifecycle = NewLifecycle

\* the class branch of _with_hook_rendering for the node with key k, whose
\* props carry the key: the instance is made if its key is not in the
\* table, and on_mount is called if it is not mounted
ClassRendering(l, k) ==
    LET instance_key == InstanceKey(ComponentPath(k), k)
        created == IF instance_key \in DOMAIN l.instances
                   THEN l
                   ELSE [l EXCEPT !.instances =
                            Put(@, instance_key, [class |-> k, mounted |-> FALSE])]
    IN  IF created.instances[instance_key].mounted
        THEN created
        ELSE [created EXCEPT !.instances[instance_key].mounted = TRUE,
                             !.on_mount[k] = @ + 1]

\* Component._unmount of the instance under key
Unmount(l, key) ==
    IF l.instances[key].mounted
    THEN [l EXCEPT !.instances[key].mounted = FALSE,
                   !.on_unmount[l.instances[key].class] = @ + 1]
    ELSE l

RECURSIVE UnmountEach(_, _)
UnmountEach(l, keys) ==
    IF keys = {}
    THEN l
    ELSE UnmountEach(Unmount(l, CHOOSE key \in keys : TRUE),
                     keys \ {CHOOSE key \in keys : TRUE})

\* "Clear component instance" of clear_component_state(component_path)
ClearInstance(l, path_tuple) ==
    IF PathKey(path_tuple) \in DOMAIN l.instances
    THEN [Unmount(l, PathKey(path_tuple)) EXCEPT
             !.instances = [key \in DOMAIN l.instances \ {PathKey(path_tuple)} |->
                                Unmount(l, PathKey(path_tuple)).instances[key]]]
    ELSE l

\* ------------------------------------------------------------------------
\* Stream  (src/pyuiwizard.py, class Stream)
\* ------------------------------------------------------------------------

Last(q) == q[Len(q)]
Front(q) == SubSeq(q, 1, Len(q) - 1)

\* deque(maxlen = limit).append followed by the explicit overflow check
EnqueuePending(q, v) ==
    LET q1 == IF Len(q) >= BackpressureLimit THEN Append(Tail(q), v) ELSE Append(q, v)
    IN  IF Len(q1) > BackpressureLimit THEN Tail(q1) ELSE q1

\* a variant that reads the latest value and leaves the queue as it is
TakeLatestKeep(q) == [actual |-> Last(q), rest |-> q]

\* actual_value = self._pending_values.pop(); self._pending_values.clear()
TakeLatest(q) == [actual |-> Last(q), rest |-> <<>>]

\* a variant that leaves the running timer alone
CancelTimerNot(ts, id) == ts

\* timer.cancel(): a timer still waiting never runs its function; one that has
\* woken up already (or has run) is not stopped
CancelTimer(ts, id) == {t \in ts : ~(t.id = id /\ t.st = "waiting")}

\* Stream._notify called by set, which holds the lock of the stream all
\* along: nothing on a disposed stream, else every subscriber is called
Notify(log, subs, isDisposed, new_value) ==
    IF isDisposed \/ subs = {} THEN log ELSE Append(log, new_value)

StreamSet(new_value) ==
    /\ Len(setLog) < MaxSets
    /\ setLog' = Append(setLog, <<now, new_value>>)
    /\ IF disposed
       THEN UNCHANGED <<value, pending_values, throttle_last, timers, timerSeq,
                        debounce_timer, notified>>
       ELSE LET q == EnqueuePending(pending_values, new_value)
                taken == TakeLatest(q)
                old_value == value
                throttled == throttle_delay > 0 /\ now - throttle_last < throttle_delay
            IN  /\ pending_values' = taken.rest
                /\ value' = taken.actual
                /\ IF throttled
                   THEN UNCHANGED <<throttle_last, timers, timerSeq, debounce_timer, notified>>
                   ELSE /\ throttle_last' = IF throttle_delay > 0 THEN now ELSE throttle_last
                        /\ IF debounce_delay > 0
                           THEN /\ timerSeq' = timerSeq + 1
                                /\ timers' = CancelTimer(timers, debounce_timer) \cup
                                       {[id |-> timerSeq + 1, due |-> now + debounce_delay,
                                         old |-> old_value, new |-> new_value,
                                         st |-> "waiting", subs |-> {}]}
                                /\ debounce_timer' = timerSeq + 1
                                /\ UNCHANGED notified
                           ELSE /\ notified' = Notify(notified, subscribers, disposed, new_value)
                                /\ UNCHANGED <<timers, timerSeq, debounce_timer>>
    /\ UNCHANGED <<now, subscribers, disposed, debounce_delay, throttle_delay>>
    /\ UNCHANGED <<diffVars, opVars, schedVars, hookVars>>

\* threading.Timer.run: the wait is over and the timer was not cancelled
TimerExpire(t) ==
    /\ t \in timers /\ t.st = "waiting" /\ now >= t.due
    /\ timers' = (timers \ {t}) \cup {[t EXCEPT !.st = "expired"]}
    /\ UNCHANGED <<now, value, pending_values, subscribers, disposed, debounce_delay,
                   debounce_timer, throttle_delay, throttle_last, timerSeq, notified, setLog>>
    /\ UNCHANGED <<diffVars, opVars, schedVars, hookVars>>

\* ... and it calls its function, lambda: self._notify(old_value, new_value),
\* on the timer's thread. _notify begins under the lock: nothing on a
\* disposed stream, else subscribers_copy = self._subscribers.copy()
TimerFire(t) ==
    /\ t \in timers /\ t.st = "expired"
    /\ timers' = IF disposed THEN timers \ {t}
                 ELSE (timers \ {t}) \cup {[t EXCEPT !.st = "copied", !.subs = subscribers]}
    /\ UNCHANGED <<now, value, pending_values, subscribers, disposed, debounce_delay,
                   debounce_timer, throttle_delay, throttle_last, timerSeq, notified,
                   setLog>>
    /\ UNCHANGED <<diffVars, opVars, schedVars, hookVars>>

\* _notify, outside the lock: "if self._disposed: break" before the callback
TimerCheck(t) ==
    /\ t \in timers /\ t.st = "copied"
    /\ timers' = IF disposed \/ t.subs = {} THEN timers \ {t}
                 ELSE (timers \ {t}) \cup {[t EXCEPT !.st = "checked"]}
    /\ UNCHANGED <<now, value, pending_values, subscribers, disposed, debounce_delay,
                   debounce_timer, throttle_delay, throttle_last, timerSeq, notified,
                   setLog>>
    /\ UNCHANGED <<diffVars, opVars, schedVars, hookVars>>

\* _notify: subscriber(new_value, old_value) for the subscriber of the copy
TimerCall(t) ==
    /\ t \in timers /\ t.st = "checked"
    /\ timers' = timers \ {t}
    /\ notified' = Append(notified, t.new)
    /\ UNCHANGED <<now, value, pending_values, subscribers, disposed, debounce_delay,
                   debounce_timer, throttle_delay, throttle_last, timerSeq, setLog>>
    /\ UNCHANGED <<diffVars, opVars, schedVars, hookVars>>

StreamDispose ==
    /\ ~disposed
    /\ disposed' = TRUE
    /\ timers' = IF debounce_timer # NoTimer THEN CancelTimer(timers, debounce_timer) ELSE timers
    /\ subscribers' = {}
    /\ UNCHANGED <<now, value, pending_values, debounce_delay, debounce_timer,
                   throttle_delay, throttle_last, timerSeq, notified, setLog>>
    /\ UNCHANGED <<diffVars, opVars, schedVars, hookVars>>

Tick ==
    /\ now + TickMs <= Epoch + Horizon
    /\ now' = now + TickMs
    /\ UNCHANGED <<streamVars, diffVars, opVars, schedVars, hookVars>>


\* ------------------------------------------------------------------------
\* The stream operators  (src/pyuiwizard.py, Stream.map ... combine_latest,
\* StreamProcessor.combine_latest)
\* ------------------------------------------------------------------------

\* The streams of the network: the sources 1 and 2, and 3 for the stream
\* Stream(name=...) that an operator derives
SourceIds == {1, 2}
DerivedId == 3
StreamIds == SourceIds \cup {DerivedId}
NoStream == 0
\* no entry in the latest dict of StreamProcessor.combine_latest
Missing == -5

\* the operators applied to source 1 (the combinations: to 1 and 2)
Operators == {"map", "filter", "distinct", "scan", "combine_latest", "debounce",
              "throttle", "processor_combine_latest"}

\* the functions handed to the operators: map(lambda v: v + 1),
\* filter(lambda v: v >= 2), scan(lambda acc, v: acc + v, 0); each raises
\* TypeError on None
TransformFn(v) == v + 1
PredicateFn(v) == v >= 2
AccumulatorFn(acc, v) == acc + v
ScanInitial == 0

\* Stream.__init__ for the three streams, a subscriber of source 1 that
\* records what it is called with, and no operator applied yet. sets are
\* the set calls issued on the sources, <<stream, value>>, and since are the
\* sources set after the operator was applied
NewNet(v1, v2) ==
    [value |-> [id \in StreamIds |-> IF id = 1 THEN v1 ELSE IF id = 2 THEN v2
                                     ELSE NoneValue],
     subs |-> [id \in StreamIds |-> IF id = 1 THEN <<[kind |-> "heard", index |-> 0]>>
                                    ELSE <<>>],
     debounce_delay |-> [id \in StreamIds |-> 0],
     throttle_delay |-> [id \in StreamIds |-> 0],
     throttle_last |-> [id \in StreamIds |-> 0],
     timer |-> [id \in StreamIds |-> [due |-> NoTimer, new |-> NoneValue]],
     op |-> "None",
     returned |-> NoStream,
     last |-> NoneValue,
     latest |-> <<NoneValue, NoneValue>>,
     heard |-> <<>>,
     emitted |-> <<>>,
     since |-> {},
     sets |-> <<>>,
     error_count |-> 0]

\* the network outside OperatorSpec
EmptyNet == NewNet(NoneValue, NoneValue)
OpIdle == net = EmptyNet

\* Stream.subscribe
Subscribe(n, id, callback) == [n EXCEPT !.subs[id] = Append(@, callback)]
Callback(kind, index) == [kind |-> kind, index |-> index]

\* Stream.set, _notify and the subscriber closures of the operators call
\* one another
RECURSIVE OpStreamSet(_, _, _, _)
RECURSIVE OpNotify(_, _, _, _)
RECURSIVE OpCall(_, _, _, _)

\* Stream.set(new_value) at time t: the value is stored; a throttled set
\* returns; a debounced one starts a timer in place of the one that waits;
\* else _notify
OpStreamSet(n, id, new_value, t) ==
    LET stored == [n EXCEPT !.value[id] = new_value]
    IN  IF n.throttle_delay[id] > 0 /\ t - n.throttle_last[id] < n.throttle_delay[id]
        THEN stored
        ELSE LET passed == IF n.throttle_delay[id] > 0
                           THEN [stored EXCEPT !.throttle_last[id] = t]
                           ELSE stored
             IN  IF n.debounce_delay[id] > 0
                 THEN [passed EXCEPT !.timer[id] = [due |-> t + n.debounce_delay[id],
                                                    new |-> new_value]]
                 ELSE OpNotify(passed, passed.subs[id], new_value, t)

\* Stream._notify: every subscriber of the copy is called in turn
OpNotify(n, subscribers_copy, new_value, t) ==
    IF subscribers_copy = <<>>
    THEN n
    ELSE OpNotify(OpCall(n, Head(subscribers_copy), new_value, t),
                  Tail(subscribers_copy), new_value, t)

\* the exception of a closure goes to derived._handle_error
OpError(n) == [n EXCEPT !.error_count = @ + 1]

\* subscriber(new_value, old_value) for the closures: the recording
\* subscribers, update of map, filter, distinct and scan, updater of
\* Stream.combine_latest and of StreamProcessor.combine_latest
OpCall(n, callback, new_val, t) ==
    CASE callback.kind = "heard" -> [n EXCEPT !.heard = Append(@, new_val)]
      [] callback.kind = "emitted" -> [n EXCEPT !.emitted = Append(@, new_val)]
      [] callback.kind = "map" ->
            IF new_val = NoneValue THEN OpError(n)
            ELSE OpStreamSet(n, DerivedId, TransformFn(new_val), t)
      [] callback.kind = "filter" ->
            IF new_val = NoneValue THEN OpError(n)
            ELSE IF PredicateFn(new_val) THEN OpStreamSet(n, DerivedId, new_val, t)
            ELSE n
      [] callback.kind = "distinct" ->
            IF new_val # n.last
            THEN OpStreamSet([n EXCEPT !.last = new_val], DerivedId, new_val, t)
            ELSE n
      [] callback.kind = "scan" ->
            IF new_val = NoneValue THEN OpError(n)
            ELSE OpStreamSet(n, DerivedId, AccumulatorFn(n.value[DerivedId], new_val), t)
      [] callback.kind = "combine_latest" ->
            LET latest == [n.latest EXCEPT ![callback.index] = new_val]
            IN  IF \A i \in 1..Len(latest) : latest[i] # NoneValue
                THEN OpStreamSet([n EXCEPT !.latest = latest], DerivedId, latest, t)
                ELSE [n EXCEPT !.latest = latest]
      [] callback.kind = "processor_combine_latest" ->
            LET latest == [n.latest EXCEPT ![callback.index] = new_val]
            IN  IF \A i \in 1..Len(latest) : latest[i] # Missing
                THEN OpStreamSet([n EXCEPT !.latest = latest], DerivedId, latest, t)
                ELSE [n EXCEPT !.latest = latest]

\* Stream.map: the closure is subscribed, and a source that has a value
\* sets the derived stream at once
StreamMap(n, t) ==
    LET subscribed == Subscribe(n, 1, Callback("map", 0))
    IN  IF n.value[1] # NoneValue
        THEN OpStreamSet(subscribed, DerivedId, TransformFn(n.value[1]), t)
        ELSE subscribed

\* Stream.combine_latest: latest = [None] * 2; each input is subscribed and
\* its value, when it has one, goes to latest
StreamCombineLatest(n) ==
    [Subscribe(Subscribe(n, 1, Callback("combine_latest", 1)),
               2, Callback("combine_latest", 2))
        EXCEPT !.latest = <<n.value[1], n.value[2]>>]

\* StreamProcessor.combine_latest(['s1', 's2']): latest = {}
ProcessorCombineLatest(n) ==
    [Subscribe(Subscribe(n, 1, Callback("processor_combine_latest", 1)),
               2, Callback("processor_combine_latest", 2))
        EXCEPT !.latest = <<Missing, Missing>>]

\* what the operator does to the network, and the stream it returns
ApplyOperator(n, op, t) ==
    CASE op = "map" -> [StreamMap(n, t) EXCEPT !.returned = DerivedId]
      [] op = "filter" ->
            [Subscribe(n, 1, Callback("filter", 0)) EXCEPT !.returned = DerivedId]
      [] op = "distinct" ->
            [Subscribe(n, 1, Callback("distinct", 0)) EXCEPT !.returned = DerivedId]
      [] op = "scan" ->
            [Subscribe(n, 1, Callback("scan", 0))
                EXCEPT !.value[DerivedId] = ScanInitial, !.returned = DerivedId]
      [] op = "combine_latest" -> [StreamCombineLatest(n) EXCEPT !.returned = DerivedId]
      [] op = "processor_combine_latest" ->
            [ProcessorCombineLatest(n) EXCEPT !.returned = DerivedId]
      [] op = "debounce" -> [n EXCEPT !.debounce_delay[1] = DebounceDelay, !.returned = 1]
      [] op = "throttle" -> [n EXCEPT !.throttle_delay[1] = ThrottleDelay, !.returned = 1]

\* An operator is applied to source 1, and the caller subscribes to the
\* stream it has got
OpApply(op) ==
    /\ net.op = "None"
    /\ LET applied == ApplyOperator(net, op, now)
       IN  net' = [Subscribe(applied, applied.returned, Callback("emitted", 0))
                      EXCEPT !.op = op]
    /\ UNCHANGED <<now, streamVars, diffVars, schedVars, hookVars, vcache, expansion,
                   lifecycle>>

\* source.set(v)
OpSet(id, v) ==
    /\ Len(net.sets) < MaxOpSets
    /\ net' = [OpStreamSet(net, id, v, now)
                  EXCEPT !.sets = Append(@, <<id, v>>),
                         !.since = IF net.op # "None" THEN @ \cup {id} ELSE @]
    /\ UNCHANGED <<now, streamVars, diffVars, schedVars, hookVars, vcache, expansion,
                   lifecycle>>

\* the debounce timer of a stream runs: _notify(old_value, new_value)
OpTimer(id) ==
    /\ net.timer[id].due # NoTimer
    /\ now >= net.timer[id].due
    /\ net' = OpNotify([net EXCEPT !.timer[id] = [due |-> NoTimer, new |-> NoneValue]],
                       net.subs[id], net.timer[id].new, now)
    /\ UNCHANGED <<now, streamVars, diffVars, schedVars, hookVars, vcache, expansion,
                   lifecycle>>


\* ------------------------------------------------------------------------
\* The tree cache  (src/pyuiwizard.py, VDOMCache and PyUIWizard._create_vdom)
\* ------------------------------------------------------------------------

\* The render function is a frame around one component with a useState(0)
\* slot and a label that shows the count: a tree is the count it shows.
\* Each thread has its own hook store (threading.local): the value of the
\* stream of its slot, or NoSlot.
CacheThreads == {"ui", "w1", "w2"}

\* cache_key of _create_vdom({}) in render_app, and of
\* _create_vdom({'breakpoint': ...}) in _force_component_update
InitialKey == "{}"
ForceKey == "{\"breakpoint\": \"md\"}"
CacheKeys == {InitialKey, ForceKey}

\* no call of _create_vdom yet
NoCreate == [thread |-> "None", vdom |-> NoVdom, cached |-> FALSE, stored |-> FALSE]

\* PyUIWizard.__init__: an empty VDOMCache, last_vdom = None, and the empty
\* hook stores of the threads
NewCache ==
    [store |-> [t \in CacheThreads |-> NoSlot],
     entries |-> [k \in CacheKeys |-> NoVdom],
     last_vdom |-> NoVdom,
     handed |-> NoVdom,
     create |-> NoCreate,
     calls |-> 0]
CacheIdle == vcache = NewCache

\* useState(0) of the component on thread t: the slot is made on first use
SlotOf(c, t) == IF c.store[t] = NoSlot THEN 0 ELSE c.store[t]

\* render_function(state) and _expand_vdom_components on thread t
RenderOn(c, t) == [c EXCEPT !.store[t] = SlotOf(c, t)]

\* _create_vdom(state) on thread t with the cache key of state: with hook
\* state in the store of the thread a fresh tree; else the cached tree when
\* cache.get finds one; else a fresh tree, which cache.set stores
CreateVdom(c, t, cache_key) ==
    IF c.store[t] # NoSlot
    THEN [c EXCEPT !.create = [thread |-> t, vdom |-> c.store[t],
                               cached |-> FALSE, stored |-> FALSE]]
    ELSE IF c.entries[cache_key] # NoVdom
    THEN [c EXCEPT !.create = [thread |-> t, vdom |-> c.entries[cache_key],
                               cached |-> TRUE, stored |-> FALSE]]
    ELSE [RenderOn(c, t) EXCEPT
             !.entries[cache_key] = SlotOf(c, t),
             !.create = [thread |-> t, vdom |-> SlotOf(c, t),
                         cached |-> FALSE, stored |-> TRUE]]

\* _diff_with_previous(new_vdom): the tree goes to the differ and becomes
\* last_vdom
CacheDiffWithPrevious(c, new) == [c EXCEPT !.handed = new, !.last_vdom = new]

\* render_app: the first pass is _create_vdom({}) on the main thread; the
\* tree is drawn in full and last_vdom is left as it is
CacheRenderApp ==
    /\ vcache.calls = 0
    /\ vcache' = [CreateVdom(vcache, "ui", InitialKey) EXCEPT !.calls = 1]
    /\ UNCHANGED <<now, streamVars, diffVars, schedVars, hookVars, net, expansion,
                   lifecycle>>

\* An event handler on the main thread calls the setter with v, and
\* trigger_rerender runs a pass: the cache is cleared (not so in
\* delayed_render, when the last pass is less than a frame ago), the tree
\* is rendered anew and diffed with the previous one
CacheRerender(v, delayed) ==
    /\ vcache.calls > 0 /\ vcache.calls < MaxCreates
    /\ vcache.store["ui"] # v
    /\ LET set == [vcache EXCEPT !.store["ui"] = v]
           cleared == IF delayed THEN set
                      ELSE [set EXCEPT !.entries = [k \in CacheKeys |-> NoVdom]]
       IN  vcache' = [CacheDiffWithPrevious(cleared, v) EXCEPT !.calls = @ + 1]
    /\ UNCHANGED <<now, streamVars, diffVars, schedVars, hookVars, net, expansion,
                   lifecycle>>

\* _force_component_update on thread t: nothing without a last_vdom; else
\* _create_vdom(state) and _diff_with_previous
CacheForceUpdate(t) ==
    /\ vcache.calls > 0 /\ vcache.calls < MaxCreates
    /\ vcache.last_vdom # NoVdom
    /\ LET created == CreateVdom(vcache, t, ForceKey)
       IN  vcache' = [CacheDiffWithPrevious(created, created.create.vdom)
                         EXCEPT !.calls = @ + 1]
    /\ UNCHANGED <<now, streamVars, diffVars, schedVars, hookVars, net, expansion,
                   lifecycle>>


\* ------------------------------------------------------------------------
\* Component expansion  (src/pyuiwizard.py, _expand_vdom_components)
\* ------------------------------------------------------------------------

\* A node before expansion: its type is a primitive tag or a component
\* function, named by its __name__. props are left out, as the expansion
\* only hands them to the component.
ComponentTypes == {"Counter", "Wrapper", "Box"}
PrimitiveTags == {"frame", "label"}
IsComponentType(type) == type \in ComponentTypes
XNode(type, key, children) == [type |-> type, key |-> key, children |-> children]

\* An element of a render path: a key or a tag (n is NoIndex), or the
\* generated f"{type_name}_{n}"
NoIndex == -1
PathStr(name) == [name |-> name, n |-> NoIndex]
UniqueKey(type_name, n) == [name |-> type_name, n |-> n]

\* p.startswith(type_name): of the names of the model no one is a prefix of
\* another, so it is the generated key of that type (or the name itself)
StartsWith(p, type_name) == p.name = type_name

\* len([p for p in path if isinstance(p, str) and p.startswith(type_name)])
CountPrefix(path, type_name) ==
    Cardinality({i \in 1..Len(path) : StartsWith(path[i], type_name)})

\* the component functions:
\*   Counter: count, setCount = useState(0), returns a label
\*   Wrapper: returns {'type': Counter, 'props': {}}
\*   Box:     returns a frame with two Counter nodes as children
ComponentRender(type) ==
    CASE type = "Counter" -> XNode("label", NoKey, <<>>)
      [] type = "Wrapper" -> XNode("Counter", NoKey, <<>>)
      [] type = "Box" -> XNode("frame", NoKey,
                               <<XNode("Counter", NoKey, <<>>),
                                 XNode("Counter", NoKey, <<>>)>>)

\* SMART PATH BUILDING of a component node
ComponentNodePath(node, path) ==
    IF node.key # NoKey
    THEN Append(path, PathStr(node.key))
    ELSE Append(path, UniqueKey(node.type, CountPrefix(path, node.type)))

\* the path under a regular node: its key or type, if not in the path yet
RegularNodePath(node, path) ==
    LET node_key == IF node.key # NoKey THEN node.key ELSE node.type
    IN  IF \E i \in 1..Len(path) : path[i] = PathStr(node_key)
        THEN path
        ELSE Append(path, PathStr(node_key))

\* _expand_vdom_components(node, path): the expanded node, and the
\* components rendered on the way with the paths they were rendered at.
\* A component node is replaced by what the component renders, with the
\* key of the node if the rendered node has none, and the children of that
\* are expanded; a regular node is copied with its children expanded.
RECURSIVE ExpandNode(_, _, _), ExpandList(_, _, _, _)
ExpandNode(node, path, renders) ==
    IF IsComponentType(node.type)
    THEN LET current_path == ComponentNodePath(node, path)
             result == ComponentRender(node.type)
             keyed == IF node.key # NoKey /\ result.key = NoKey
                      THEN [result EXCEPT !.key = node.key]
                      ELSE result
             kids == ExpandList(keyed.children, current_path, <<>>,
                                Append(renders, [type |-> node.type,
                                                 path |-> current_path]))
         IN  [vdom |-> [keyed EXCEPT !.children = kids.vdoms],
              renders |-> kids.renders]
    ELSE LET kids == ExpandList(node.children, RegularNodePath(node, path),
                                <<>>, renders)
         IN  [vdom |-> [node EXCEPT !.children = kids.vdoms],
              renders |-> kids.renders]
ExpandList(children, path, done, renders) ==
    IF children = <<>>
    THEN [vdoms |-> done, renders |-> renders]
    ELSE LET first == ExpandNode(Head(children), path, renders)
         IN  ExpandList(Tail(children), path, Append(done, first.vdom),
                        first.renders)

\* the trees of ExpandSpec: a root frame with up to two children, each a
\* leaf (a label or a component node, unkeyed or with a key) or an unkeyed
\* frame around one leaf
XKeys == {NoKey, "a"}
XLeaves == {XNode(type, key, <<>>) :
                type \in {"label"} \cup ComponentTypes, key \in XKeys}
XChildren == XLeaves \cup {XNode("frame", NoKey, <<leaf>>) : leaf \in XLeaves}
XTrees ==
    {XNode("frame", NoKey, cs) :
         cs \in {<<>>} \cup {<<c>> : c \in XChildren}
                \cup {<<c, d>> : c \in XChildren, d \in XChildren}}

NoExpansion == [vdom |-> XNode("None", NoKey, <<>>), renders |-> <<>>]
ExpandIdle == expansion = [input |-> XNode("None", NoKey, <<>>),
                           result |-> NoExpansion, pc |-> "off"]

\* _ensure_vdom_expanded / _create_vdom: the tree of the render function is
\* expanded from the empty path
ExpandVdom ==
    /\ expansion.pc = "rendered"
    /\ expansion' = [expansion EXCEPT
                        !.result = ExpandNode(expansion.input, <<>>, <<>>),
                        !.pc = "expanded"]
    /\ UNCHANGED <<now, streamVars, diffVars, schedVars, hookVars, net, vcache,
                   lifecycle>>


\* ------------------------------------------------------------------------
\* FunctionalDiffer  (src/pyuiwizard.py, class FunctionalDiffer)
\* ------------------------------------------------------------------------

RECURSIVE Concat(_)
Concat(ss) == IF ss = <<>> THEN <<>> ELSE Head(ss) \o Concat(Tail(ss))

\* FunctionalDiffer._get_event_handler_props
EventHandlerProps ==
    {"onClick", "onDoubleClick", "onRightClick", "onMouseEnter", "onMouseLeave",
     "onMouseMove", "onMouseDown", "onMouseUp", "onMouseWheel", "onFocus", "onBlur",
     "onKeyPress", "onKeyRelease", "onKeyDown", "onKeyUp", "onChange", "onSubmit",
     "onEscape", "onTab", "onShiftTab", "onDragStart", "onDrag", "onDragEnd", "onDrop",
     "onResize"}

Callable(v) == v.t = "function"

\* a variant that takes every prop of the new node for changed
PropChangedAlways(key, old_val, new_val) == TRUE

\* the test of _diff_props on one key of new_props: text and value by str(),
\* an event handler by identity when both sides are callable, the rest by !=
\* (the json.dumps test of two dicts or two lists decides as != does)
PropChanged(key, old_val, new_val) ==
    IF key \in {"text", "value"}
    THEN Str(old_val) # Str(new_val)
    ELSE IF key \in EventHandlerProps
         THEN Callable(old_val) /\ Callable(new_val) /\ old_val # new_val
         ELSE old_val # new_val

\* _diff_props: the UPDATE patch, or NoPatch for the None it returns
DiffProps(old_props, new_props, path) ==
    LET changed == [k \in PropNames |->
                      IF new_props[k] # None /\ PropChanged(k, old_props[k], new_props[k])
                      THEN new_props[k] ELSE None]
        removed == SelectSeq(PropOrder, LAMBDA k : old_props[k] # None /\ new_props[k] = None)
    IN  IF changed # NoProps \/ removed # <<>>
        THEN UpdatePatch(path, changed, removed)
        ELSE NoPatch

\* the keys of {c.get('key'): (i, c) for i, c in enumerate(children) if
\* c.get('key') is not None}, in the order of the dict: first occurrence
DictKeys(children) ==
    LET firsts == SelectSeq([i \in 1..Len(children) |-> i],
                            LAMBDA i : /\ children[i].key # NoKey
                                       /\ \A j \in 1..(i - 1) : children[j].key # children[i].key)
    IN  [n \in 1..Len(firsts) |-> children[firsts[n]].key]

\* the entry of that dict for a key: the last child that carries it
\* (1-based here; the patches carry the 0-based index of the code)
IndexOfKey(children, key) ==
    CHOOSE i \in 1..Len(children) :
        /\ children[i].key = key
        /\ \A j \in (i + 1)..Len(children) : children[j].key # key

\* a variant that never finds a key among the old children
HasKeyNever(children, key) == FALSE

\* key in old_by_key
HasKey(children, key) == \E i \in 1..Len(children) : children[i].key = key

RECURSIVE DiffNode(_, _, _, _)

\* _diff_indexed_children
DiffIndexedChildren(old_children, new_children, path) ==
    LET max_len == IF Len(old_children) > Len(new_children)
                   THEN Len(old_children) ELSE Len(new_children)
        at(n) ==
            LET child_path == Append(path, Idx(n - 1))
            IN  IF n > Len(old_children)
                THEN <<CreatePatch(child_path, new_children[n])>>
                ELSE IF n > Len(new_children)
                     THEN <<RemovePatch(child_path, old_children[n])>>
                     ELSE DiffNode(old_children[n], new_children[n], child_path, FALSE)
    IN  Concat([n \in 1..max_len |-> at(n)])

\* _diff_keyed_children
DiffKeyedChildren(old_children, new_children, path) ==
    LET old_keys == DictKeys(old_children)
        new_keys == DictKeys(new_children)
        forNew(key) ==
            LET child_path == Append(path, Key(key))
                new_idx == IndexOfKey(new_children, key)
            IN  IF HasKey(old_children, key)
                THEN LET old_idx == IndexOfKey(old_children, key)
                     IN  DiffNode(old_children[old_idx], new_children[new_idx], child_path, FALSE)
                         \o (IF old_idx # new_idx
                             THEN <<MovePatch(path, key, old_idx - 1, new_idx - 1)>>
                             ELSE <<>>)
                ELSE <<CreatePatch(child_path, new_children[new_idx])>>
        forOld(key) ==
            IF HasKey(new_children, key)
            THEN <<>>
            ELSE <<RemovePatch(Append(path, Key(key)),
                               old_children[IndexOfKey(old_children, key)])>>
    IN  Concat([n \in 1..Len(new_keys) |-> forNew(new_keys[n])])
        \o Concat([n \in 1..Len(old_keys) |-> forOld(old_keys[n])])

\* a variant that diffs the children by index whether or not they have keys
DiffChildrenByIndex(old_children, new_children, path) ==
    DiffIndexedChildren(old_children, new_children, path)

\* _diff_children: keyed as soon as one new child has a key
DiffChildren(old_children, new_children, path) ==
    LET has_keys == \E i \in 1..Len(new_children) : new_children[i].key # NoKey
    IN  IF has_keys
        THEN DiffKeyedChildren(old_children, new_children, path)
        ELSE DiffIndexedChildren(old_children, new_children, path)

\* _diff_node; old_is_new is the "old is new" test of the fast path. The memo
\* holds what this computation returned for the same (old, new, path).
DiffNode(old, new, path, old_is_new) ==
    IF old_is_new
    THEN <<>>
    ELSE IF old.type # new.type
         THEN <<ReplacePatch(path, old, new)>>
         ELSE IF old.key # new.key
              THEN <<ReplacePatch(path, old, new)>>
              ELSE LET props_patch == DiffProps(old.props, new.props, path)
                   IN  (IF props_patch # NoPatch THEN <<props_patch>> ELSE <<>>)
                       \o DiffChildren(old.children, new.children, path)

\* FunctionalDiffer.diff of a differ whose caches are empty
Diff(old, new, old_is_new) ==
    IF new = Absent
    THEN <<RemovePatch(<<>>, old)>>
    ELSE IF old = Absent
         THEN <<CreatePatch(<<>>, new)>>
         ELSE DiffNode(old, new, <<>>, old_is_new)

\* json.dumps(v, default=str) of a prop value: a tuple is written as the
\* list of its items, a function as the string str() makes of it
Json(v) ==
    CASE v.t = "tuple" -> [t |-> "array", s |-> ListVal.s]
      [] v.t = "list" -> [t |-> "array", s |-> v.s]
      [] v.t = "int" -> [t |-> "number", s |-> v.s]
      [] v.t = "NoneType" -> [t |-> "null", s |-> "null"]
      [] OTHER -> [t |-> "string", s |-> v.s]

\* json.dumps(node, sort_keys=True, default=str)
RECURSIVE JsonNode(_)
JsonNode(node) ==
    [type |-> node.type, key |-> node.key,
     props |-> [k \in PropNames |-> Json(node.props[k])],
     children |-> [i \in 1..Len(node.children) |-> JsonNode(node.children[i])]]

\* FunctionalDiffer.__init__
EmptyDiffer == [diffs |-> 0, patch_cache |-> EmptyMap, memo |-> EmptyMap]

\* _diff_node at the root with the memo at hand: the entry of
\* (hash of the JSON of old, hash of the JSON of new, path) if there is
\* one, before the fast path of "old is new"; else the computation, whose
\* result is stored. (The calls for the children find no entry in a memo
\* that held none for their paths: the trees diffed more than once are
\* single nodes.)
DiffNodeMemo(memo, old, new, path, old_is_new) ==
    LET memo_key == <<JsonNode(old), JsonNode(new), path>>
        computed == DiffNode(old, new, path, FALSE)
    IN IF memo_key \in DOMAIN memo
       THEN [patches |-> memo[memo_key], memo |-> memo]
       ELSE IF old_is_new
            THEN [patches |-> <<>>, memo |-> memo]
            ELSE [patches |-> computed, memo |-> Put(memo, memo_key, computed)]

\* cache_key of FunctionalDiffer.diff
CacheKey(old, new) == <<JsonNode(old), JsonNode(new)>>

\* FunctionalDiffer.diff on the differ d: the patches it returns and the
\* differ it leaves. A result of less than 50 patches is cached (the cache
\* never comes near the 1000 entries at which the oldest is dropped)
DifferDiff(d, old, new, old_is_new) ==
    IF new = Absent
    THEN [patches |-> <<RemovePatch(<<>>, old)>>, differ |-> [d EXCEPT !.diffs = @ + 1]]
    ELSE IF old = Absent
    THEN [patches |-> <<CreatePatch(<<>>, new)>>, differ |-> [d EXCEPT !.diffs = @ + 1]]
    ELSE LET cache_key == CacheKey(old, new)
             diffed == DiffNodeMemo(d.memo, old, new, <<>>, old_is_new)
         IN IF cache_key \in DOMAIN d.patch_cache
            THEN [patches |-> d.patch_cache[cache_key],
                  differ |-> [d EXCEPT !.diffs = @ + 1]]
            ELSE [patches |-> diffed.patches,
                  differ |->
                      [d EXCEPT
                         !.diffs = @ + 1,
                         !.memo = diffed.memo,
                         !.patch_cache =
                             IF Len(diffed.patches) < CacheablePatches
                             THEN Put(@, cache_key, diffed.patches)
                             ELSE @]]

\* ------------------------------------------------------------------------
\* Tk widgets and FunctionalPatcher  (src/pyuiwizard.py)
\* ------------------------------------------------------------------------
\* widgets is a record: the Tk side (seq, kind, master, text, alive, packed)
\* and the five maps of the patcher. Widget 0 is the Tk root; a widget's id is
\* the order of its creation, which is the order of winfo_children().
\* While patches are applied the record also carries the state manager of
\* the thread (hooks), which clear_component_state changes, the sequence
\* of the clear_component_state and destroy calls made (log), and the types
\* of the patches in the order _apply_batch_operations took them (applied).

TkRoot == 0
NoWidget == -1

Without(q, x) == SelectSeq(q, LAMBDA y : y # x)

\* tk.Tk() and FunctionalPatcher.__init__
EmptyWidgets ==
    [seq |-> 0, kind |-> (TkRoot :> "Tk"), master |-> (TkRoot :> TkRoot),
     text |-> (TkRoot :> ""), alive |-> {TkRoot}, packed |-> <<>>,
     widget_map |-> EmptyMap, key_map |-> EmptyMap, widget_to_path |-> EmptyMap,
     widget_to_key |-> EmptyMap, parent_map |-> EmptyMap,
     hooks |-> EmptyManager, log |-> <<>>, applied |-> <<>>]

\* widget.winfo_children(): the live children, in the order of creation
WinfoChildren(W, widget) ==
    LET cs == {w \in W.alive : w # TkRoot /\ W.master[w] = widget}
    IN  [n \in 1..Cardinality(cs) |->
            CHOOSE w \in cs : Cardinality({v \in cs : v < w}) = n - 1]

\* the children as the packer shows them
PackSlaves(W, widget) == SelectSeq(W.packed, LAMBDA w : W.master[w] = widget)

RECURSIVE IsInside(_, _, _)
IsInside(W, w, widget) ==
    \/ w = widget
    \/ w # TkRoot /\ IsInside(W, W.master[w], widget)

\* WidgetFactory.create_widget: a label or a button shows str(text)
CreateWidget(W, node_type, parent, props) ==
    LET id == W.seq + 1
    IN  [W EXCEPT !.seq = id,
                  !.kind = Put(@, id, node_type),
                  !.master = Put(@, id, parent),
                  !.text = Put(@, id, IF node_type \in {"label", "button"} /\ props["text"] # None
                                      THEN Str(props["text"]) ELSE ""),
                  !.alive = @ \cup {id}]

\* WidgetFactory.update_widget_prop for 'text': config(text = str(value)) on a
\* widget that shows text, nothing on a frame or on the Tk root
UpdateWidgetProp(W, widget, prop, v) ==
    IF prop = "text" /\ W.kind[widget] \in {"label", "button"}
    THEN [W EXCEPT !.text[widget] = Str(v)]
    ELSE W

\* LayoutManager.apply_layout with the pack manager: widget.pack(...) puts a
\* widget that is not packed at the end of its master's list
Pack(W, widget) ==
    IF \E n \in 1..Len(W.packed) : W.packed[n] = widget
    THEN W
    ELSE [W EXCEPT !.packed = Append(@, widget)]

\* widget.pack_forget()
PackForget(W, widget) == [W EXCEPT !.packed = Without(@, widget)]

\* the calls the log holds
ClearCall(path) == [op |-> "clear", path |-> path, widget |-> NoWidget]
DestroyCall(widget) == [op |-> "destroy", path |-> <<>>, widget |-> widget]

\* safe_widget_operation(widget, 'destroy'): the widget and all that is
\* inside it
Destroy(W, widget) ==
    LET gone == {w \in W.alive : IsInside(W, w, widget)}
    IN  [W EXCEPT !.alive = @ \ gone,
                  !.packed = SelectSeq(@, LAMBDA w : w \notin gone),
                  !.log = Append(@, DestroyCall(widget))]

\* clear_component_state(component_path=path), called by the patcher
ClearState(W, path) ==
    [W EXCEPT !.hooks = ClearComponentState(@, path),
              !.log = Append(@, ClearCall(path))]

\* FunctionalPatcher._cleanup_widget_mappings
CleanupWidgetMappings(W, widget, path) ==
    LET has_key == widget \in DOMAIN W.widget_to_key
    IN  [W EXCEPT !.widget_map = Del(@, path),
                  !.key_map = IF has_key THEN Del(@, W.widget_to_key[widget]) ELSE @,
                  !.widget_to_key = Del(@, widget),
                  !.widget_to_path = Del(@, widget),
                  !.parent_map = Del(@, widget)]

\* the loop of method 2 of _get_widget_by_path over the elements of the path:
\* widget.winfo_exist() is not a method of a widget, the AttributeError is
\* caught, and the mappings of the widget found under the key are removed
RECURSIVE KeyLookupLoop(_, _)
KeyLookupLoop(W, elements) ==
    IF elements = <<>>
    THEN W
    ELSE LET element == Head(elements)
             found == element.k = "str" /\ element.s \in DOMAIN W.key_map
             widget == W.key_map[element.s]
         IN  KeyLookupLoop(
                 IF found /\ widget \in DOMAIN W.widget_to_path
                 THEN CleanupWidgetMappings(W, widget, W.widget_to_path[widget])
                 ELSE W,
                 Tail(elements))

\* FunctionalPatcher._get_widget_by_path: the widget (or NoWidget for None)
\* and the maps as the lookup leaves them
\* method 3: the child of the parent at the index that ends the path
ChildAtIndex(up, index) ==
    IF up.widget # NoWidget /\ index < Len(WinfoChildren(up.W, up.widget))
    THEN [widget |-> WinfoChildren(up.W, up.widget)[index + 1], W |-> up.W]
    ELSE [widget |-> NoWidget, W |-> up.W]
\* method 4: the key that ends the path, in key_map
WidgetOfKey(W, last) ==
    IF last.k = "str" /\ last.s \in DOMAIN W.key_map
    THEN [widget |-> W.key_map[last.s], W |-> W]
    ELSE [widget |-> NoWidget, W |-> W]
RECURSIVE GetWidgetByPath(_, _)
GetWidgetByPathFallback(W, path) ==
    IF Last(path).k = "int"
    THEN ChildAtIndex(GetWidgetByPath(W, Front(path)), Last(path).i)
    ELSE WidgetOfKey(W, Last(path))
GetWidgetByPath(W, path) ==
    IF path = <<>>
    THEN [widget |-> TkRoot, W |-> W]
    ELSE IF path \in DOMAIN W.widget_map
         THEN [widget |-> W.widget_map[path], W |-> W]
         ELSE GetWidgetByPathFallback(KeyLookupLoop(W, path), path)

\* FunctionalPatcher._recursive_cleanup: the mappings of every widget inside
\* `widget` that widget_map knows
RECURSIVE RecursiveCleanup(_, _)
RECURSIVE CleanupChildren(_, _)
CleanupChildren(W, children) ==
    IF children = <<>>
    THEN W
    ELSE LET child == Head(children)
             paths == {p \in DOMAIN W.widget_map : W.widget_map[p] = child}
             child_path == CHOOSE p \in paths : TRUE
         IN  CleanupChildren(
                 IF paths # {}
                 THEN ClearState(
                          CleanupWidgetMappings(RecursiveCleanup(W, child), child,
                                                child_path),
                          child_path)
                 ELSE W,
                 Tail(children))
RecursiveCleanup(W, widget) == CleanupChildren(W, WinfoChildren(W, widget))

\* the widget just created is entered into the five maps
Register(W, node, parent, path) ==
    [W EXCEPT !.widget_map = Put(@, path, W.seq),
              !.widget_to_path = Put(@, W.seq, path),
              !.parent_map = Put(@, W.seq, parent),
              !.key_map = Put(@, node.key, W.seq),
              !.widget_to_key = Put(@, W.seq, node.key)]

\* FunctionalPatcher._create_widget_tree: the widget and its children are
\* created and registered; no child is handed to the layout manager
RECURSIVE CreateWidgetTree(_, _, _, _)
RECURSIVE CreateChildren(_, _, _, _)
CreateChildren(W, children, widget, path) ==
    IF children = <<>>
    THEN W
    ELSE CreateChildren(
             CreateWidgetTree(W, Head(children), widget,
                              Append(path, KeySel(Head(children).key))).W,
             Tail(children), widget, path)
CreateWidgetTree(W, node, parent, path) ==
    [widget |-> W.seq + 1,
     W |-> CreateChildren(Register(CreateWidget(W, node.type, parent, node.props),
                                   node, parent, path),
                          node.children, W.seq + 1, path)]

\* HookAwareVDOMRenderer._render_vdom_with_hooks on primitive nodes: as above,
\* and every widget is handed to the layout manager before its children
RECURSIVE RenderVdomWithHooks(_, _, _, _)
RECURSIVE RenderChildren(_, _, _, _)
RenderChildren(W, children, widget, path) ==
    IF children = <<>>
    THEN W
    ELSE RenderChildren(
             RenderVdomWithHooks(W, Head(children), widget,
                                 Append(path, KeySel(Head(children).key))),
             Tail(children), widget, path)
RenderVdomWithHooks(W, vdom, parent, path) ==
    IF vdom = Absent
    THEN W
    ELSE RenderChildren(
             Pack(Register(CreateWidget(W, vdom.type, parent, vdom.props),
                           vdom, parent, path),
                  W.seq + 1),
             vdom.children, W.seq + 1, path)

\* HookAwareVDOMRenderer._render_full on a new window
RenderFull(vdom) == RenderVdomWithHooks(EmptyWidgets, vdom, TkRoot, <<>>)

\* FunctionalPatcher._apply_remove: _recursive_cleanup,
\* _cleanup_widget_mappings, clear_component_state, then destroy
RemoveFound(r, path) ==
    IF r.widget = NoWidget
    THEN r.W
    ELSE Destroy(
             ClearState(
                 CleanupWidgetMappings(RecursiveCleanup(r.W, r.widget), r.widget, path),
                 path),
             r.widget)
ApplyRemove(W, patch) == RemoveFound(GetWidgetByPath(W, patch.path), patch.path)

\* parent = self._get_widget_by_path(parent_path, root_widget) or root_widget
ParentPath(path) == IF Len(path) > 1 THEN Front(path) ELSE <<>>
OrRoot(widget) == IF widget = NoWidget THEN TkRoot ELSE widget

\* LayoutManager.apply_layout on the widget _create_widget_tree returned
PackCreated(c) == Pack(c.W, c.widget)

\* FunctionalPatcher._apply_create
CreateUnder(r, patch) ==
    PackCreated(CreateWidgetTree(r.W, patch.node, OrRoot(r.widget), patch.path))
ApplyCreate(W, patch) == CreateUnder(GetWidgetByPath(W, ParentPath(patch.path)), patch)

\* FunctionalPatcher._apply_update: the changed props are set, the removed
\* ones are reset to their defaults (_reset_widget_prop: text to '')
RECURSIVE ResetProps(_, _, _)
ResetProps(W, widget, removed) ==
    IF removed = <<>>
    THEN W
    ELSE ResetProps(UpdateWidgetProp(W, widget, Head(removed), StrVal("")),
                    widget, Tail(removed))
RECURSIVE SetProps(_, _, _, _)
SetProps(W, widget, changed, keys) ==
    IF keys = <<>>
    THEN W
    ELSE SetProps(IF changed[Head(keys)] # None
                  THEN UpdateWidgetProp(W, widget, Head(keys), changed[Head(keys)])
                  ELSE W,
                  widget, changed, Tail(keys))
UpdateFound(r, patch) ==
    IF r.widget = NoWidget
    THEN r.W
    ELSE ResetProps(SetProps(r.W, r.widget, patch.changed, PropOrder),
                    r.widget, patch.removed)
ApplyUpdate(W, patch) == UpdateFound(GetWidgetByPath(W, patch.path), patch)

\* FunctionalPatcher._apply_replace: _recursive_cleanup, destroy,
\* _cleanup_widget_mappings, clear_component_state; then the new widget
\* tree is created under the parent and packed
ReplaceUnder(W, widget, parent, patch) ==
    PackCreated(CreateWidgetTree(
        ClearState(
            CleanupWidgetMappings(Destroy(RecursiveCleanup(W, widget), widget),
                                  widget, patch.path),
            patch.path),
        patch.node, parent, patch.path))
ReplaceUnderFound(up, widget, patch) ==
    ReplaceUnder(up.W, widget, OrRoot(up.widget), patch)
ReplaceFound(r, patch) ==
    IF r.widget = NoWidget
    THEN r.W
    ELSE IF r.widget \in DOMAIN r.W.parent_map
         THEN ReplaceUnder(r.W, r.widget, r.W.parent_map[r.widget], patch)
         ELSE ReplaceUnderFound(GetWidgetByPath(r.W, ParentPath(patch.path)),
                                r.widget, patch)
ApplyReplace(W, patch) == ReplaceFound(GetWidgetByPath(W, patch.path), patch)

\* FunctionalPatcher._apply_move: pack_forget, then pack again
MoveFound(r, key) ==
    IF r.widget # NoWidget /\ key \in DOMAIN r.W.key_map
    THEN Pack(PackForget(r.W, r.W.key_map[key]), r.W.key_map[key])
    ELSE r.W
ApplyMove(W, patch) == MoveFound(GetWidgetByPath(W, patch.path), patch.key)

\* one patch of a batch: the method of op_type is called with it
ApplyOne(W, patch, op_type) ==
    [(CASE op_type = "remove" -> ApplyRemove(W, patch)
        [] op_type = "move" -> ApplyMove(W, patch)
        [] op_type = "create" -> ApplyCreate(W, patch)
        [] op_type = "update" -> ApplyUpdate(W, patch)
        [] op_type = "replace" -> ApplyReplace(W, patch))
     EXCEPT !.applied = Append(@, patch.type)]

\* FunctionalPatcher._apply_batch_operations
RECURSIVE ApplyBatchOperations(_, _, _)
ApplyBatchOperations(W, ps, op_type) ==
    IF ps = <<>>
    THEN W
    ELSE ApplyBatchOperations(ApplyOne(W, Head(ps), op_type), Tail(ps), op_type)

OfType(ps, type) == SelectSeq(ps, LAMBDA q : q.type = type)

\* a variant of apply_patches that takes the patches as the differ emitted
\* them, each with the method of its type
OpOf(type) ==
    CASE type = "REMOVE" -> "remove"
      [] type = "MOVE" -> "move"
      [] type = "CREATE" -> "create"
      [] type = "UPDATE" -> "update"
      [] type = "REPLACE" -> "replace"
RECURSIVE ApplyPatchesAsEmitted(_, _)
ApplyPatchesAsEmitted(W, ps) ==
    IF ps = <<>>
    THEN W
    ELSE ApplyPatchesAsEmitted(ApplyOne(W, Head(ps), OpOf(Head(ps).type)), Tail(ps))

\* FunctionalPatcher.apply_patches: remove, reorder, move, create, update,
\* replace (the differ emits no REORDER patch)
ApplyPatches(W, ps) ==
    ApplyBatchOperations(
        ApplyBatchOperations(
            ApplyBatchOperations(
                ApplyBatchOperations(
                    ApplyBatchOperations(W, OfType(ps, "REMOVE"), "remove"),
                    OfType(ps, "MOVE"), "move"),
                OfType(ps, "CREATE"), "create"),
            OfType(ps, "UPDATE"), "update"),
        OfType(ps, "REPLACE"), "replace")

\* what the window shows: kind, text and packed children of a widget
RECURSIVE Shown(_, _)
Shown(W, widget) ==
    LET slaves == PackSlaves(W, widget)
    IN  [kind |-> W.kind[widget], text |-> W.text[widget],
         children |-> [n \in 1..Len(slaves) |-> Shown(W, slaves[n])]]

\* the same, of a tree: the window a full render of it gives
ShownTree(vdom) == Shown(RenderFull(vdom), TkRoot)

\* ------------------------------------------------------------------------
\* DiffSpec: one pass of PyUIWizard._diff_with_previous and
\* HookAwareVDOMRenderer.render over a window that shows old_vdom
\* ------------------------------------------------------------------------

\* differ.diff(old_vdom, new_vdom); the render function may hand back the
\* very object it returned before
DiffWithPrevious(old_is_new) ==
    /\ diff_pc = "rendered"
    /\ old_is_new => old_vdom = new_vdom
    /\ LET diffed == DifferDiff(differ, old_vdom, new_vdom, old_is_new)
       IN /\ patches' = diffed.patches
          /\ differ' = diffed.differ
    /\ diff_pc' = "diffed"
    /\ UNCHANGED <<old_vdom, new_vdom, widgets, now, streamVars, schedVars, hookVars,
                   opVars>>

\* renderer.render: {'type': 'none'} when there is no patch, else
\* patcher.apply_patches(patches, vdom, root); then _flush_effects(). A pass
\* has two trees.
\* the patches applied with the state manager of the main thread at hand
Patched ==
    ApplyPatches([widgets EXCEPT !.hooks = mgr, !.log = <<>>, !.applied = <<>>], patches)

RenderToScreen ==
    /\ diff_pc = "diffed"
    /\ old_vdom # Absent /\ new_vdom # Absent
    /\ LET patched == Patched
           hooks == IF patches = <<>> THEN mgr ELSE patched.hooks
       IN /\ widgets' = IF patches = <<>> THEN widgets
                        ELSE [patched EXCEPT !.hooks = EmptyManager]
          /\ mgr' = FlushEffects(hooks)
          /\ errors' = errors \o Flushing(hooks).errors
    /\ diff_pc' = "patched"
    /\ UNCHANGED <<old_vdom, new_vdom, patches, differ, now, streamVars, schedVars,
                   opVars>>
    /\ UNCHANGED <<thread_local, pass_thread, hook_pc, use_diffing, rendered, ran,
                   outside>>

\* the variables of the differ outside DiffSpec
DiffIdle ==
    /\ old_vdom = Absent /\ new_vdom = Absent
    /\ patches = <<>>
    /\ widgets = EmptyWidgets
    /\ diff_pc = "idle"
    /\ differ = EmptyDiffer

\* the variables of the stream outside StreamSpec
StreamIdle ==
    /\ value = 0 /\ pending_values = <<>> /\ subscribers = {} /\ disposed = FALSE
    /\ debounce_delay = 0 /\ throttle_delay = 0 /\ throttle_last = 0
    /\ debounce_timer = NoTimer /\ timers = {} /\ timerSeq = 0
    /\ notified = <<>> /\ setLog = <<>>

\* the state manager of the main thread when the pass comes to the diff:
\* the components of the old tree were expanded and their effects flushed
\* by the pass that drew the window; the components of the new tree were
\* expanded by this pass
Mounted(old, new) == ExpandTree(FlushEffects(ExpandTree(EmptyManager, old)), new)

DiffInit ==
    /\ now = Epoch
    /\ StreamIdle
    /\ old_vdom \in Trees \cup {Absent}
    /\ new_vdom \in Trees \cup {Absent}
    /\ patches = <<>>
    /\ widgets = RenderFull(old_vdom)
    /\ diff_pc = "rendered"
    /\ differ = EmptyDiffer
    /\ SchedIdle
    /\ OpIdle
    /\ CacheIdle
    /\ ExpandIdle
    /\ LifecycleIdle
    /\ mgr = Mounted(old_vdom, new_vdom)
    /\ thread_local = [t \in Bg |-> EmptyLocal]
    /\ pass_thread = "ui"
    /\ hook_pc = "off"
    /\ use_diffing = TRUE
    /\ rendered = <<>>
    /\ ran = <<>>
    /\ outside = NoOutsideCall
    /\ errors = <<>>

DiffNext ==
    \/ \E old_is_new \in BOOLEAN : DiffWithPrevious(old_is_new)
    \/ RenderToScreen

DiffSpec == DiffInit /\ [][DiffNext]_vars

\* ------------------------------------------------------------------------
\* DifferSpec: one FunctionalDiffer and the diffs of a run (PyUIWizard
\* keeps self.differ for all its passes)
\* ------------------------------------------------------------------------
\* self.differ.diff(old, new) of two single nodes
DifferCall(old, new, old_is_new) ==
    /\ differ.diffs < MaxDiffs
    /\ old_is_new => old = new
    /\ old_vdom' = old
    /\ new_vdom' = new
    /\ patches' = DifferDiff(differ, old, new, old_is_new).patches
    /\ differ' = DifferDiff(differ, old, new, old_is_new).differ
    /\ UNCHANGED <<widgets, diff_pc, now, streamVars, schedVars, hookVars, opVars>>

DifferInit ==
    /\ now = Epoch
    /\ StreamIdle
    /\ DiffIdle
    /\ SchedIdle
    /\ OpIdle
    /\ CacheIdle
    /\ ExpandIdle
    /\ LifecycleIdle
    /\ HookIdle

DifferNext ==
    \E old \in PropNodes, new \in PropNodes, old_is_new \in BOOLEAN :
        DifferCall(old, new, old_is_new)

DifferSpec == DifferInit /\ [][DifferNext]_vars

\* ------------------------------------------------------------------------
\* StreamSpec
\* ------------------------------------------------------------------------

StreamInit ==
    /\ now = Epoch
    /\ value = 0
    /\ pending_values = <<>>
    /\ subscribers = {"subscriber"}
    /\ disposed = FALSE
    /\ debounce_delay \in {0, DebounceDelay}
    /\ throttle_delay \in {0, ThrottleDelay}
    /\ throttle_last = 0
    /\ debounce_timer = NoTimer
    /\ timers = {}
    /\ timerSeq = 0
    /\ notified = <<>>
    /\ setLog = <<>>
    /\ DiffIdle
    /\ SchedIdle
    /\ OpIdle
    /\ CacheIdle
    /\ ExpandIdle
    /\ LifecycleIdle
    /\ HookIdle

StreamNext ==
    \/ \E v \in 1..MaxVal : StreamSet(v)
    \/ \E t \in timers : TimerExpire(t)
    \/ \E t \in timers : TimerFire(t)
    \/ \E t \in timers : TimerCheck(t)
    \/ \E t \in timers : TimerCall(t)
    \/ StreamDispose
    \/ Tick

StreamSpec == StreamInit /\ [][StreamNext]_vars

\* ------------------------------------------------------------------------
\* OperatorSpec: two sources, one of them with a subscriber, and one
\* operator applied at some time between the sets of the sources
\* ------------------------------------------------------------------------

\* the values handed to the sets of the sources
OpValues == {NoneValue, 1, 2}

OperatorInit ==
    /\ now = Epoch
    /\ StreamIdle
    /\ DiffIdle
    /\ SchedIdle
    /\ HookIdle
    /\ CacheIdle
    /\ ExpandIdle
    /\ LifecycleIdle
    /\ \E v1, v2 \in {NoneValue, 0} : net = NewNet(v1, v2)

OperatorNext ==
    \/ \E op \in Operators : OpApply(op)
    \/ \E id \in SourceIds, v \in OpValues : OpSet(id, v)
    \/ \E id \in StreamIds : OpTimer(id)
    \/ Tick

OperatorSpec == OperatorInit /\ [][OperatorNext]_vars

\* ------------------------------------------------------------------------
\* CacheSpec: render_app, then passes of the main thread and forced updates
\* on any thread
\* ------------------------------------------------------------------------

CacheInit ==
    /\ now = Epoch
    /\ StreamIdle
    /\ DiffIdle
    /\ SchedIdle
    /\ HookIdle
    /\ OpIdle
    /\ vcache = NewCache
    /\ ExpandIdle
    /\ LifecycleIdle

CacheNext ==
    \/ CacheRenderApp
    \/ \E v \in 1..MaxVal, delayed \in BOOLEAN : CacheRerender(v, delayed)
    \/ \E t \in CacheThreads : CacheForceUpdate(t)

CacheSpec == CacheInit /\ [][CacheNext]_vars

\* ------------------------------------------------------------------------
\* ExpandSpec: the render function returns any of the trees, and the tree
\* is expanded
\* ------------------------------------------------------------------------

ExpandInit ==
    /\ now = Epoch
    /\ StreamIdle
    /\ DiffIdle
    /\ SchedIdle
    /\ HookIdle
    /\ OpIdle
    /\ CacheIdle
    /\ LifecycleIdle
    /\ \E tree \in XTrees :
           expansion = [input |-> tree, result |-> NoExpansion, pc |-> "rendered"]

ExpandNext == ExpandVdom

ExpandSpec == ExpandInit /\ [][ExpandNext]_vars

\* ------------------------------------------------------------------------
\* Spec: useState, setState and the scheduler of render_app. One component
\* with one useState(0) slot renders a label that shows the counter; the
\* worker thread holds the setter that the first pass on the main thread
\* returned.
\* ------------------------------------------------------------------------

\* the render functions a program may hand to render_app: a counter, and a
\* counter whose useEffect counts up to EffectCap with a functional update
\* the render functions: a frame around the component Counter (useState and
\* a label), around CountingCounter (whose effect calls its setter), or
\* around Recursing (useState and, once its count is not 0, a child Loop
\* whose function returns a frame around a Loop)
RenderFunctions == {"Counter", "CountingCounter", "Recursing"}

\* a call of setState in progress: the thread whose store holds its stream
SetStateFrame(target, by) ==
    [op |-> "setState", pc |-> "read", target |-> target, by |-> by,
     val |-> 0, kind |-> "-", type |-> "-"]

\* a render pass in progress
PassFrame(kind) ==
    [op |-> "pass", pc |-> "expand", target |-> "-", by |-> "-",
     val |-> 0, kind |-> kind, type |-> "-"]

Top(s) == s[Len(s)]
Pop(s) == SubSeq(s, 1, Len(s) - 1)
SetTop(s, f) == [s EXCEPT ![Len(s)] = f]

At(t, op, pc) ==
    /\ stack[t] # <<>>
    /\ Top(stack[t]).op = op
    /\ Top(stack[t]).pc = pc

\* the functional update handed to setState
NewValue(by, current_value) ==
    IF by = "worker" THEN current_value + 1
    ELSE IF current_value < EffectCap THEN current_value + 1 ELSE current_value

\* Stream.set holds the RLock of _render_trigger while it notifies
\* trigger_rerender: another thread's set waits for it
LockFree(t) ==
    \A u \in Threads \ {t} : \A i \in 1..Len(stack[u]) :
        ~(stack[u][i].op = "setState" /\ stack[u][i].pc = "notify")

\* the Tk main loop runs callbacks when the main thread runs nothing else
MainLoopIdle == render_function # NoFunction /\ stack["ui"] = <<>>

\* render_app up to its first pass: trigger_rerender is subscribed, and as
\* state_names is reset to [] the pass is the one of the branch
\* "No global state, just render once"
RenderApp(render_fn) ==
    /\ render_function = NoFunction
    /\ render_function' = render_fn
    /\ stack' = [stack EXCEPT !["ui"] = <<PassFrame("initial")>>]
    /\ UNCHANGED <<hook_state, render_trigger, update_queue, render_scheduled,
                   last_render_time, after_queue, last_vdom, screen, render_count,
                   callLog, lastSet>>
    /\ UNCHANGED <<now, streamVars, diffVars, opVars, hookVars>>
    /\ UNCHANGED widget_threads

\* the worker thread calls the setter with a functional update n -> n + 1
WorkerSetState(t) ==
    /\ t \in Bg
    /\ stack[t] = <<>>
    /\ hook_state["ui"] # NoSlot
    /\ Len(callLog) < MaxCalls
    /\ stack' = [stack EXCEPT ![t] = <<SetStateFrame("ui", "worker")>>]
    /\ callLog' = Append(callLog, <<now, render_count>>)
    /\ UNCHANGED <<render_function, hook_state, render_trigger, update_queue,
                   render_scheduled, last_render_time, after_queue, last_vdom,
                   screen, render_count, lastSet>>
    /\ UNCHANGED <<now, streamVars, diffVars, opVars, hookVars>>
    /\ UNCHANGED widget_threads

\* computed_value = new_value(current_value) of the call in frame f
Computed(f) == NewValue(f.by, hook_state[f.target])

\* a variant of the first step of setState that goes on to stream.set even
\* when the computed value is the current one
SetStateReadAlways(t) ==
    /\ At(t, "setState", "read")
    /\ stack' = [stack EXCEPT ![t] =
         SetTop(stack[t], [Top(stack[t]) EXCEPT
                             !.val = Computed(Top(stack[t])), !.pc = "set"])]
    /\ UNCHANGED <<render_function, hook_state, render_trigger, update_queue,
                   render_scheduled, last_render_time, after_queue, last_vdom,
                   screen, render_count, callLog, lastSet>>
    /\ UNCHANGED <<now, streamVars, diffVars, opVars, hookVars>>
    /\ UNCHANGED widget_threads

\* setState: current_value = stream.value, the functional update, and the
\* return when the value is unchanged
SetStateRead(t) ==
    /\ At(t, "setState", "read")
    /\ stack' = [stack EXCEPT ![t] =
         IF Computed(Top(stack[t])) = hook_state[Top(stack[t]).target]
         THEN Pop(stack[t])
         ELSE SetTop(stack[t], [Top(stack[t]) EXCEPT
                                  !.val = Computed(Top(stack[t])), !.pc = "set"])]
    /\ UNCHANGED <<render_function, hook_state, render_trigger, update_queue,
                   render_scheduled, last_render_time, after_queue, last_vdom,
                   screen, render_count, callLog, lastSet>>
    /\ UNCHANGED <<now, streamVars, diffVars, opVars, hookVars>>
    /\ UNCHANGED widget_threads

\* setState: stream.set(new_value)
SetStateSet(t) ==
    /\ At(t, "setState", "set")
    /\ hook_state' = [hook_state EXCEPT ![Top(stack[t]).target] = Top(stack[t]).val]
    /\ lastSet' = Top(stack[t]).val
    /\ stack' = [stack EXCEPT ![t] = SetTop(stack[t], [Top(stack[t]) EXCEPT !.pc = "queue"])]
    /\ UNCHANGED <<render_function, render_trigger, update_queue, render_scheduled,
                   last_render_time, after_queue, last_vdom, screen, render_count,
                   callLog>>
    /\ UNCHANGED <<now, streamVars, diffVars, opVars, hookVars>>
    /\ UNCHANGED widget_threads

\* setState: _component_update_queue.append(state_info) and
\* old_trigger = wizard._render_trigger.value, a read under the lock of the
\* trigger stream
SetStateQueue(t) ==
    /\ At(t, "setState", "queue")
    /\ LockFree(t)
    /\ update_queue' = update_queue + 1
    /\ stack' = [stack EXCEPT ![t] =
         SetTop(stack[t], [Top(stack[t]) EXCEPT !.val = render_trigger,
                                                !.pc = "set_trigger"])]
    /\ UNCHANGED <<render_function, hook_state, render_trigger, render_scheduled,
                   last_render_time, after_queue, last_vdom, screen, render_count,
                   callLog, lastSet>>
    /\ UNCHANGED <<now, streamVars, diffVars, opVars, hookVars>>
    /\ UNCHANGED widget_threads

\* A Tk call made on a worker thread is handed to the main thread and is
\* served when the main loop runs (root.after, widget calls of _render_full,
\* ensure_main_thread around apply_patches)
TkServes(t) == t \in Bg => MainLoopIdle

\* setState: wizard._render_trigger.set(old_trigger + 1), whose subscriber
\* trigger_rerender empties the update queue and returns at once when
\* _render_scheduled is set
TriggerDropped(t) ==
    /\ At(t, "setState", "set_trigger")
    /\ LockFree(t)
    /\ render_scheduled
    /\ render_trigger' = Top(stack[t]).val + 1
    /\ update_queue' = 0
    /\ stack' = [stack EXCEPT ![t] = Pop(@)]
    /\ UNCHANGED <<render_function, hook_state, render_scheduled, last_render_time,
                   after_queue, last_vdom, screen, render_count, callLog, lastSet>>
    /\ UNCHANGED <<now, streamVars, diffVars, opVars, hookVars>>
    /\ UNCHANGED widget_threads

\* trigger_rerender less than 16 ms after the last pass:
\* self.root.after(16, delayed_render) and return
TriggerDeferred(t) ==
    /\ At(t, "setState", "set_trigger")
    /\ LockFree(t)
    /\ ~render_scheduled
    /\ now - last_render_time < FrameMs
    /\ TkServes(t)
    /\ render_trigger' = Top(stack[t]).val + 1
    /\ update_queue' = 0
    /\ after_queue' = Append(after_queue, now + FrameMs)
    /\ stack' = [stack EXCEPT ![t] = Pop(@)]
    /\ UNCHANGED <<render_function, hook_state, render_scheduled, last_render_time,
                   last_vdom, screen, render_count, callLog, lastSet>>
    /\ UNCHANGED <<now, streamVars, diffVars, opVars, hookVars>>
    /\ UNCHANGED widget_threads

\* trigger_rerender otherwise: the pass runs inside the call, on the thread
\* of the setState, under the lock of the trigger stream
TriggerImmediate(t) ==
    /\ At(t, "setState", "set_trigger")
    /\ LockFree(t)
    /\ ~render_scheduled
    /\ now - last_render_time >= FrameMs
    /\ render_trigger' = Top(stack[t]).val + 1
    /\ update_queue' = 0
    /\ render_scheduled' = TRUE
    /\ last_render_time' = now
    /\ stack' = [stack EXCEPT ![t] =
         Append(SetTop(@, [Top(@) EXCEPT !.pc = "notify"]), PassFrame("immediate"))]
    /\ UNCHANGED <<render_function, hook_state, after_queue, last_vdom, screen,
                   render_count, callLog, lastSet>>
    /\ UNCHANGED <<now, streamVars, diffVars, opVars, hookVars>>
    /\ UNCHANGED widget_threads

\* the Tk main loop runs a due delayed_render: it clears _render_scheduled
\* and stamps _last_render_time before its pass
DelayedRender ==
    /\ MainLoopIdle
    /\ after_queue # <<>>
    /\ Head(after_queue) <= now
    /\ after_queue' = Tail(after_queue)
    /\ render_scheduled' = FALSE
    /\ last_render_time' = now
    /\ stack' = [stack EXCEPT !["ui"] = <<PassFrame("delayed")>>]
    /\ UNCHANGED <<render_function, hook_state, render_trigger, update_queue,
                   last_vdom, screen, render_count, callLog, lastSet>>
    /\ UNCHANGED <<now, streamVars, diffVars, opVars, hookVars>>
    /\ UNCHANGED widget_threads

\* useState(0) in the store of the running thread: the value of the
\* stream of the slot, made with the initial value when the store has none
UseState(t) == IF hook_state[t] = NoSlot THEN 0 ELSE hook_state[t]

\* a variant of the expansion that returns the tree it has at the depth
\* limit
ExpandCutsOff(circular, levels, depth) == FALSE

\* _expand_vdom_components(node, path, _depth) raises RuntimeError: the
\* node at depth has a chain of levels nodes below it, each the child of
\* the one before, and a circular chain is as long below each of its nodes
RECURSIVE ExpandRaises(_, _, _)
ExpandRaises(circular, levels, depth) ==
    IF depth > MAX_DEPTH THEN TRUE
    ELSE IF levels = 0 THEN FALSE
    ELSE ExpandRaises(circular, IF circular THEN levels ELSE levels - 1, depth + 1)

\* the expansion of the tree of the render function raises in the pass of
\* thread t: below the root frame are the component and its child
DepthExceeded(t) ==
    ExpandRaises(render_function = "Recursing" /\ UseState(t) # 0, 2, 0)

\* render_function(state) and _expand_vdom_components(vdom, []): the
\* component runs its hooks against _get_state_manager(), a threading.local.
\* The except clause of the pass prints the RuntimeError of the expansion
\* and the pass goes to its finally clause
PassExpand(t) ==
    /\ At(t, "pass", "expand")
    /\ hook_state' = [hook_state EXCEPT ![t] = UseState(t)]
    /\ stack' = [stack EXCEPT ![t] =
         IF DepthExceeded(t)
         THEN SetTop(@, [Top(@) EXCEPT !.pc = "finally"])
         ELSE SetTop(@, [Top(@) EXCEPT !.val = UseState(t), !.pc = "diff"])]
    /\ UNCHANGED <<render_function, render_trigger, update_queue, render_scheduled,
                   last_render_time, after_queue, last_vdom, screen, render_count,
                   callLog, lastSet>>
    /\ UNCHANGED <<now, streamVars, diffVars, opVars, hookVars>>
    /\ UNCHANGED widget_threads

\* {'type': ...} of _diff_with_previous(vdom) for the tree vdom
DiffType(vdom) ==
    IF last_vdom = NoVdom THEN "full"
    ELSE IF last_vdom = vdom THEN "none" ELSE "patches"

\* _diff_with_previous, which stores last_vdom; the first pass of
\* render_app builds {'type': 'full'} itself and stores nothing
PassDiff(t) ==
    /\ At(t, "pass", "diff")
    /\ last_vdom' = IF Top(stack[t]).kind = "initial" THEN last_vdom
                    ELSE Top(stack[t]).val
    /\ stack' = [stack EXCEPT ![t] =
         SetTop(@, [Top(@) EXCEPT
               !.type = IF Top(stack[t]).kind = "initial" THEN "full"
                        ELSE DiffType(Top(stack[t]).val),
               !.pc = "render"])]
    /\ UNCHANGED <<render_function, hook_state, render_trigger, update_queue,
                   render_scheduled, last_render_time, after_queue, screen,
                   render_count, callLog, lastSet>>
    /\ UNCHANGED <<now, streamVars, diffVars, opVars, hookVars>>
    /\ UNCHANGED widget_threads

\* the frames of thread t once renderer.render has drawn: _flush_effects()
\* runs the effect that the component queued in this pass, whatever its
\* dependencies, and the effect calls the setter of this pass
Flushed(t) ==
    IF render_function = "CountingCounter"
    THEN Append(SetTop(stack[t], [Top(stack[t]) EXCEPT !.pc = "finally"]),
                SetStateFrame(t, "effect"))
    ELSE SetTop(stack[t], [Top(stack[t]) EXCEPT !.pc = "finally"])

\* ensure_main_thread waits on the lock-free flag result["done"] while the
\* main thread cannot run run_on_main: the main thread waits for the lock
\* of the trigger stream, which the setState around the pass of t holds
WaitsForLock(u, t) ==
    /\ At(u, "setState", "queue") \/ At(u, "setState", "set_trigger")
    /\ \E i \in 1..Len(stack[t]) :
           stack[t][i].op = "setState" /\ stack[t][i].pc = "notify"

\* _render_to_screen: renderer.render draws the tree in _render_full or
\* applies the patches, both on the thread of the call, nothing for
\* {'type': 'none'}, counts the pass and flushes the effects. The except
\* clause of render draws the error tree with _render_full and neither
\* counts nor flushes. apply_patches of a worker thread is MarshalPatches
PassRender(t) ==
    /\ At(t, "pass", "render")
    /\ ~(t \in Bg /\ Top(stack[t]).type = "patches")
    /\ Top(stack[t]).type # "none" => TkServes(t)
    /\ screen' = CASE Top(stack[t]).type = "none" -> screen
                   [] Top(stack[t]).type = "error" -> ErrorVdom
                   [] OTHER -> Top(stack[t]).val
    /\ widget_threads' = IF Top(stack[t]).type = "none" THEN widget_threads
                         ELSE widget_threads \cup {t}
    /\ render_count' = IF Top(stack[t]).type = "error" THEN render_count
                       ELSE render_count + 1
    /\ stack' = [stack EXCEPT ![t] =
         IF Top(stack[t]).type = "error"
         THEN SetTop(stack[t], [Top(stack[t]) EXCEPT !.pc = "finally"])
         ELSE Flushed(t)]
    /\ UNCHANGED <<render_function, hook_state, render_trigger, update_queue,
                   render_scheduled, last_render_time, after_queue, last_vdom,
                   callLog, lastSet>>
    /\ UNCHANGED <<now, streamVars, diffVars, opVars, hookVars>>

\* ensure_main_thread around apply_patches on a worker thread:
\* first_widget.winfo_toplevel() and root_widget.after(0, run_on_main), Tk
\* calls that the main loop serves, before the wait for result["done"]
MarshalPatches(t) ==
    /\ t \in Bg
    /\ At(t, "pass", "render")
    /\ Top(stack[t]).type = "patches"
    /\ TkServes(t)
    /\ stack' = [stack EXCEPT ![t] = SetTop(@, [Top(@) EXCEPT !.pc = "wait"])]
    /\ UNCHANGED <<render_function, hook_state, render_trigger, update_queue,
                   render_scheduled, last_render_time, after_queue, last_vdom,
                   screen, render_count, callLog, lastSet, widget_threads>>
    /\ UNCHANGED <<now, streamVars, diffVars, opVars, hookVars>>

\* the main loop runs run_on_main, which applies the patches on the main
\* thread; the worker sees result["done"], counts the pass and flushes
RunOnMain(t) ==
    /\ t \in Bg
    /\ At(t, "pass", "wait")
    /\ MainLoopIdle
    /\ screen' = Top(stack[t]).val
    /\ widget_threads' = widget_threads \cup {"ui"}
    /\ render_count' = render_count + 1
    /\ stack' = [stack EXCEPT ![t] = Flushed(t)]
    /\ UNCHANGED <<render_function, hook_state, render_trigger, update_queue,
                   render_scheduled, last_render_time, after_queue, last_vdom,
                   callLog, lastSet>>
    /\ UNCHANGED <<now, streamVars, diffVars, opVars, hookVars>>

\* the wait of ensure_main_thread ends after timeout = 5.0 s with
\* RuntimeError("Timeout waiting for ..."): renderer.render catches it and
\* goes on to _render_error_ui(e), a _render_full on the worker thread
MarshalTimeout(t) ==
    /\ t \in Bg
    /\ At(t, "pass", "wait")
    /\ WaitsForLock("ui", t)
    /\ stack' = [stack EXCEPT ![t] =
         SetTop(@, [Top(@) EXCEPT !.type = "error", !.pc = "render"])]
    /\ UNCHANGED <<render_function, hook_state, render_trigger, update_queue,
                   render_scheduled, last_render_time, after_queue, last_vdom,
                   screen, render_count, callLog, lastSet, widget_threads>>
    /\ UNCHANGED <<now, streamVars, diffVars, opVars, hookVars>>

\* the end of a pass. finally: self._render_scheduled = False in
\* trigger_rerender and in delayed_render; the pass of trigger_rerender
\* returns into _render_trigger.set and so out of setState
PassFinally(t) ==
    /\ At(t, "pass", "finally")
    /\ render_scheduled' = IF Top(stack[t]).kind = "initial" THEN render_scheduled
                           ELSE FALSE
    /\ stack' = [stack EXCEPT ![t] =
         IF Top(@).kind = "immediate" THEN Pop(Pop(@)) ELSE Pop(@)]
    /\ UNCHANGED <<render_function, hook_state, render_trigger, update_queue,
                   last_render_time, after_queue, last_vdom, screen, render_count,
                   callLog, lastSet>>
    /\ UNCHANGED <<now, streamVars, diffVars, opVars, hookVars>>
    /\ UNCHANGED widget_threads

\* time.time() moves on by a frame interval
Clock ==
    /\ now + FrameMs <= Epoch + Horizon
    /\ now' = now + FrameMs
    /\ UNCHANGED <<streamVars, diffVars, opVars, schedVars, hookVars>>

Init ==
    /\ now = Epoch
    /\ StreamIdle
    /\ DiffIdle
    /\ SchedIdle
    /\ OpIdle
    /\ CacheIdle
    /\ ExpandIdle
    /\ LifecycleIdle
    /\ HookIdle

Next ==
    \/ \E render_fn \in RenderFunctions : RenderApp(render_fn)
    \/ \E t \in Bg : WorkerSetState(t)
    \/ \E t \in Threads : SetStateRead(t)
    \/ \E t \in Threads : SetStateSet(t)
    \/ \E t \in Threads : SetStateQueue(t)
    \/ \E t \in Threads : TriggerDropped(t)
    \/ \E t \in Threads : TriggerDeferred(t)
    \/ \E t \in Threads : TriggerImmediate(t)
    \/ DelayedRender
    \/ \E t \in Threads : PassExpand(t)
    \/ \E t \in Threads : PassDiff(t)
    \/ \E t \in Threads : PassRender(t)
    \/ \E t \in Bg : MarshalPatches(t)
    \/ \E t \in Bg : RunOnMain(t)
    \/ \E t \in Bg : MarshalTimeout(t)
    \/ \E t \in Threads : PassFinally(t)
    \/ Clock

Spec == Init /\ [][Next]_vars

\* ------------------------------------------------------------------------
\* HookSpec: render passes of a root frame with two component children,
\* keyed "a" and "b"; between the passes event handlers on the main thread
\* call the setters, set the context and write the cells, and a worker
\* thread calls the setters, which runs the next pass on the worker
\* ------------------------------------------------------------------------

\* values handed to a setter, to Context.set and to cell.current
StateValues == {0, 1}
ContextValues == {0, 1}
RefValues == {1}

\* _get_state_manager() and _get_context_registry() as thread t gets them
OnThread(t) == IF t = "ui" THEN mgr ELSE Bind(mgr, thread_local[t])
\* thread t has left the manager m: the objects are those of m, the
\* thread-local attributes of m are those of t
MainAfter(t, m) == IF t = "ui" THEN m ELSE Bind(m, LocalOf(mgr))
LocalAfter(t, m) ==
    IF t = "ui" THEN thread_local ELSE [thread_local EXCEPT ![t] = LocalOf(m)]

\* render_function(state) and _expand_vdom_components(vdom, []): component
\* "a", then component "b"
Expanded(m) ==
    WithHookRendering(WithHookRendering(ResetContext(m), ComponentPath("a")),
                      ComponentPath("b"))
RenderedBy(m, t) ==
    [a |-> Returned(Enter(ResetContext(m), ComponentPath("a"))),
     b |-> Returned(Enter(WithHookRendering(ResetContext(m), ComponentPath("a")),
                          ComponentPath("b"))),
     thread |-> t]

\* what the except clause of the pass prints for the failure of k
PassError(k, how) ==
    [stream |-> "pass", exc |-> IF how = "raises" THEN "Exception" ELSE "ValueError",
     path |-> ComponentPath(k), hook_index |-> 0]
PassErrors == SelectSeq(errors, LAMBDA e : e.stream = "pass")

\* A render pass begins on thread t: on the main thread (render_app,
\* delayed_render, a trigger fired by the main thread), or on the worker
\* whose setState has fired the trigger, inside that call. The passes that
\* have begun are those that were expanded and those that failed.
HookExpand(t) ==
    /\ \/ hook_pc = "idle" /\ t = "ui"
       \/ hook_pc = "triggered" /\ t = pass_thread
    /\ Len(rendered) + Len(PassErrors) < MaxPasses
    /\ LET expanded == Expanded(OnThread(t))
       IN /\ mgr' = MainAfter(t, expanded)
          /\ thread_local' = LocalAfter(t, expanded)
    /\ rendered' = Append(rendered, RenderedBy(OnThread(t), t))
    /\ pass_thread' = t
    /\ hook_pc' = "expanded"
    /\ UNCHANGED <<use_diffing, ran, outside>>
    /\ UNCHANGED <<now, streamVars, diffVars, opVars, schedVars>>
    /\ UNCHANGED errors

\* _render_to_screen on the thread of the pass: renderer.render, which ends
\* with _flush_effects(), when use_diffing is set, else PyUIWizard._render_full
HookRender ==
    /\ hook_pc = "expanded"
    /\ LET flushed == FlushEffects(OnThread(pass_thread))
       IN /\ mgr' = IF use_diffing THEN MainAfter(pass_thread, flushed) ELSE mgr
          /\ thread_local' = IF use_diffing THEN LocalAfter(pass_thread, flushed)
                             ELSE thread_local
    /\ ran' = Append(ran, IF use_diffing THEN Flushing(OnThread(pass_thread)).called
                          ELSE <<>>)
    /\ errors' = IF use_diffing THEN errors \o Flushing(OnThread(pass_thread)).errors
                 ELSE errors
    /\ hook_pc' = "idle"
    /\ UNCHANGED <<pass_thread, use_diffing, rendered, outside>>
    /\ UNCHANGED <<now, streamVars, diffVars, opVars, schedVars>>

\* the manager when the expansion has come to its end at component k: the
\* components before k and k itself have run their hooks
ExpandedUpTo(m, k) ==
    IF k = ComponentOrder[1]
    THEN WithHookRendering(ResetContext(m), ComponentPath(k))
    ELSE Expanded(m)

\* A render pass on thread t in which component k fails: its function
\* raises at its end, and the exception leaves _with_hook_rendering and
\* _expand_vdom_components; or it returns a dict without 'type', the
\* expansion goes on and validate_vdom raises. The except clause of the
\* pass (trigger_rerender, delayed_render, render_app) prints the exception
\* and the pass ends. The component fails on the branch it takes when its
\* count is not 0: the first pass does not fail.
HookExpandFails(t, k, how) ==
    /\ \/ hook_pc = "idle" /\ t = "ui"
       \/ hook_pc = "triggered" /\ t = pass_thread
    /\ Len(PassErrors) < MaxFailures
    /\ rendered # <<>>
    /\ mgr.streams[Last(rendered)[k].setCount].value # 0
    /\ Len(rendered) + Len(PassErrors) < MaxPasses
    /\ LET expanded == IF how = "raises" THEN ExpandedUpTo(OnThread(t), k)
                       ELSE Expanded(OnThread(t))
       IN /\ mgr' = MainAfter(t, expanded)
          /\ thread_local' = LocalAfter(t, expanded)
    /\ errors' = Append(errors, PassError(k, how))
    /\ pass_thread' = t
    /\ hook_pc' = "idle"
    /\ UNCHANGED <<use_diffing, rendered, ran, outside>>
    /\ UNCHANGED <<now, streamVars, diffVars, opVars, schedVars>>

\* the setter called with v has set the stream and the render trigger
Effective(stream, v) == mgr.streams[stream].value # v

\* thread t (an event handler on the main thread, or a worker) calls the
\* setter that the latest pass handed to component k. A worker's effective
\* call goes on to trigger_rerender on the worker.
HookSetState(t, k, v) ==
    /\ hook_pc = "idle"
    /\ rendered # <<>>
    /\ mgr.render_trigger < MaxTriggers
    /\ mgr' = setState(mgr, Last(rendered)[k].setCount, v)
    /\ hook_pc' = IF t \in Bg /\ Effective(Last(rendered)[k].setCount, v)
                  THEN "triggered" ELSE "idle"
    /\ pass_thread' = IF t \in Bg /\ Effective(Last(rendered)[k].setCount, v)
                      THEN t ELSE pass_thread
    /\ UNCHANGED <<thread_local, use_diffing, rendered, ran, outside>>
    /\ UNCHANGED <<now, streamVars, diffVars, opVars, schedVars>>
    /\ UNCHANGED errors

\* trigger_rerender on the worker finds a pass scheduled, or the last pass
\* less than a frame ago: it returns, and the pass is left to the main thread
HookDefer ==
    /\ hook_pc = "triggered"
    /\ hook_pc' = "idle"
    /\ UNCHANGED <<mgr, thread_local, pass_thread, use_diffing, rendered, ran, outside>>
    /\ UNCHANGED <<now, streamVars, diffVars, opVars, schedVars>>
    /\ UNCHANGED errors

\* an event handler calls ctx.set(v)
HookContextSet(v) ==
    /\ hook_pc = "idle"
    /\ mgr.render_trigger < MaxTriggers
    /\ mgr' = ContextSet(mgr, v)
    /\ UNCHANGED <<thread_local, pass_thread, hook_pc, use_diffing, rendered, ran,
                   outside>>
    /\ UNCHANGED <<now, streamVars, diffVars, opVars, schedVars>>
    /\ UNCHANGED errors

\* an event handler of component k writes cell.current = v
HookWriteRef(k, v) ==
    /\ hook_pc = "idle"
    /\ rendered # <<>>
    /\ mgr' = [mgr EXCEPT !.refs[Last(rendered)[k].cell] = v]
    /\ UNCHANGED <<thread_local, pass_thread, hook_pc, use_diffing, rendered, ran,
                   outside>>
    /\ UNCHANGED <<now, streamVars, diffVars, opVars, schedVars>>
    /\ UNCHANGED errors

\* a hook called by name with the arguments the component uses
CallHook(m, hook) ==
    CASE hook = "useState" -> useState(m, 0, NoKey)
      [] hook = "useEffect" -> useEffect(m, "every", NoDeps)
      [] hook = "useRef" -> useRef(m, 0)
      [] hook = "useContext" -> useContext(m)

\* an event handler calls a hook: no component is being rendered. The
\* exception ends the handler.
HookOutside(hook) ==
    /\ hook_pc = "idle"
    /\ outside.n < MaxOutside
    /\ outside' = [n |-> outside.n + 1, hook |-> hook, exc |-> CallHook(mgr, hook).exc]
    /\ mgr' = [CallHook(mgr, hook) EXCEPT !.exc = "None"]
    /\ UNCHANGED <<thread_local, pass_thread, hook_pc, use_diffing, rendered, ran>>
    /\ UNCHANGED <<now, streamVars, diffVars, opVars, schedVars>>
    /\ UNCHANGED errors

HookInit ==
    /\ now = Epoch
    /\ StreamIdle
    /\ DiffIdle
    /\ SchedIdle
    /\ OpIdle
    /\ CacheIdle
    /\ ExpandIdle
    /\ LifecycleIdle
    /\ mgr = EmptyManager
    /\ thread_local = [t \in Bg |-> EmptyLocal]
    /\ pass_thread = "ui"
    /\ hook_pc = "idle"
    /\ use_diffing \in BOOLEAN
    /\ rendered = <<>>
    /\ ran = <<>>
    /\ outside = NoOutsideCall
    /\ errors = <<>>

HookNext ==
    \/ \E t \in Threads : HookExpand(t)
    \/ \E t \in Threads, k \in Components, how \in {"raises", "malformed"} :
           HookExpandFails(t, k, how)
    \/ HookRender
    \/ \E t \in Threads, k \in Components, v \in StateValues : HookSetState(t, k, v)
    \/ HookDefer
    \/ \E v \in ContextValues : HookContextSet(v)
    \/ \E k \in Components, v \in RefValues : HookWriteRef(k, v)
    \/ \E hook \in {"useState", "useEffect", "useRef", "useContext"} : HookOutside(hook)

HookSpec == HookInit /\ [][HookNext]_vars

\* ------------------------------------------------------------------------
\* clear_component_state() and the actions on class components
\* ------------------------------------------------------------------------

\* the order of state.values(): a dict keeps the order of insertion, and
\* every pass renders "a" before "b", each with useState, useRef and
\* useContext in that order
SlotKeys(k) ==
    <<TupleKey(ComponentPath(k), StateId(NoKey, 0)),
      TupleKey(ComponentPath(k), PathId("ref", ComponentPath(k), 1)),
      TupleKey(ComponentPath(k), <<ContextKey>>),
      StringKey(PathId("ctx_sub", ComponentPath(k), 3))>>
StateKeys(m) ==
    SelectSeq(SlotKeys("a") \o SlotKeys("b"), LAMBDA key : key \in DOMAIN m.state)

\* the loop of clear_component_state() over state.values(): the record of
\* a useState has a 'stream', which is disposed; that of a useRef has its
\* cell emptied; for any other record the third test calls
\* state_info.gey('type'), which a dict has not: AttributeError leaves the
\* loop and the function
RECURSIVE ClearLoop(_, _)
ClearLoop(m, keys) ==
    IF keys = <<>>
    THEN m
    ELSE IF m.state[Head(keys)].stream # NoObject \/ m.state[Head(keys)].type = "useRef"
    THEN ClearLoop(DisposeSlot(m, m.state[Head(keys)]), Tail(keys))
    ELSE [m EXCEPT !.exc = "AttributeError"]

\* clear_component_state(): the loop, then state.clear() and
\* _get_context_registry().contexts.clear()
ClearAllState(m) ==
    IF ClearLoop(m, StateKeys(m)).exc # "None"
    THEN ClearLoop(m, StateKeys(m))
    ELSE [ClearLoop(m, StateKeys(m)) EXCEPT !.state = EmptyMap, !.contexts = NoContext]

\* ... and between the two every instance is unmounted and instances.clear()
ClearAllInstances(l) ==
    [UnmountEach(l, DOMAIN l.instances) EXCEPT !.instances = EmptyMap]

\* a pass renders the class component of the node with key k
ClassRender(k) ==
    /\ hook_pc # "disposed"
    /\ lifecycle.renders < MaxClassRenders
    /\ lifecycle' = [ClassRendering(lifecycle, k) EXCEPT !.renders = @ + 1]
    /\ UNCHANGED <<now, streamVars, diffVars, schedVars, hookVars, net, vcache,
                   expansion>>

\* clear_component_state(component_path) for the path of the component k,
\* as the patcher calls it when it removes the widget
ClearPath(k) ==
    /\ hook_pc # "disposed"
    /\ Len(lifecycle.path_clears) < MaxPathClears
    /\ mgr' = ClearComponentState(mgr, ComponentPath(k))
    /\ lifecycle' = [ClearInstance(lifecycle, ComponentPath(k)) EXCEPT
                        !.path_clears = Append(@, k)]
    /\ UNCHANGED <<thread_local, pass_thread, hook_pc, use_diffing, rendered, ran,
                   outside, errors>>
    /\ UNCHANGED <<now, streamVars, diffVars, schedVars, net, vcache, expansion>>

\* PyUIWizard.dispose on the main thread, between two passes:
\* clear_component_state()
ClearAll ==
    /\ hook_pc \in {"idle", "off"}
    /\ mgr' = ClearAllState(mgr)
    /\ lifecycle' = IF ClearAllState(mgr).exc # "None" THEN lifecycle
                    ELSE ClearAllInstances(lifecycle)
    /\ hook_pc' = "disposed"
    /\ UNCHANGED <<thread_local, pass_thread, use_diffing, rendered, ran,
                   outside, errors>>
    /\ UNCHANGED <<now, streamVars, diffVars, schedVars, net, vcache, expansion>>

\* ------------------------------------------------------------------------
\* ClearSpec: the passes of HookSpec, class components rendered beside
\* them, and in the end clear_component_state()
\* ------------------------------------------------------------------------
ClearInit ==
    /\ HookInit
    /\ use_diffing

ClearNext ==
    \/ HookNext
    \/ \E k \in {"a"} : ClassRender(k)
    \/ ClearAll

ClearSpec == ClearInit /\ [][ClearNext]_vars

\* ------------------------------------------------------------------------
\* LifecycleSpec: class components rendered again and again, their paths
\* cleared, and in the end clear_component_state()
\* ------------------------------------------------------------------------
LifecycleInit == Init

LifecycleNext ==
    \/ \E k \in Components : ClassRender(k)
    \/ \E k \in Components : ClearPath(k)
    \/ ClearAll

LifecycleSpec == LifecycleInit /\ [][LifecycleNext]_vars

\* ------------------------------------------------------------------------
\* Claims about useState and the scheduler (checked under Spec)
\* ------------------------------------------------------------------------

\* nothing runs and nothing is scheduled: no pass will come unless a new
\* setState is issued
Quiescent ==
    /\ render_function # NoFunction
    /\ after_queue = <<>>
    /\ \A t \in Threads : stack[t] = <<>>

\* the worker has issued three setState(n -> n + 1) within one frame
\* interval, all after the first render of the plain counter was drawn
ThreeRapidCalls ==
    /\ render_function = "Counter"
    /\ Len(callLog) = 3
    /\ \A i \in 1..3 : callLog[i][2] >= 1
    /\ callLog[3][1] - callLog[1][1] < FrameMs

\* C1: after useState(0) and three setState(n -> n + 1) issued in rapid
\* succession from a background thread, once everything has settled exactly
\* one render pass has committed besides the first render, and the window
\* shows the final state 3.
C1_ThreeSetStatesOnePass ==
    (ThreeRapidCalls /\ Quiescent) => (render_count = 2 /\ screen = 3)

\* C2: no effective setState is lost. With the main thread alone (no
\* worker call), whenever nothing runs and nothing is scheduled any more,
\* the window shows the value of the state: every set value was rendered by
\* an immediate, a coalesced or a deferred pass.
C2_NoLostUpdate ==
    (Quiescent /\ callLog = <<>>) => screen = hook_state["ui"]

\* C3: at most one render pass is in flight at any time, over all threads
\* and all nesting levels.
C3_OnePassInFlight ==
    \A t \in Threads, u \in Threads :
        \A i \in 1..Len(stack[t]), j \in 1..Len(stack[u]) :
            (stack[t][i].op = "pass" /\ stack[u][j].op = "pass")
                => (t = u /\ i = j)

\* C4: at most one deferred render pass is pending at any time.
C4_OneDeferredPending == Len(after_queue) <= 1

\* thread t runs the component, and so its useState, in this step
Expands(t) == At(t, "pass", "expand") /\ Top(stack'[t]).pc = "diff"

\* C5: in every pass after the first render, useState of the plain counter
\* returns the value of the most recent setState, never the initializer.
C5_HookIdentity ==
    [][\A t \in Threads :
          (Expands(t) /\ render_function = "Counter" /\ render_count >= 1
             /\ lastSet # NotSet)
              => Top(stack'[t]).val = lastSet]_vars

\* thread t leaves the first step of a setState whose computed value is
\* the current value of the stream
NoOpSetState(t) ==
    /\ At(t, "setState", "read")
    /\ Computed(Top(stack[t])) = hook_state[Top(stack[t]).target]
    /\ stack'[t] # stack[t]

\* C13: a setState whose updater returns the current value of the stream is
\* a no-op: the call returns, the value of every stream is unchanged, the
\* render trigger is neither changed nor fired (no pass starts, none is
\* deferred).
C13_EqualValueIsNoOp ==
    [][\A t \in Threads :
          NoOpSetState(t) =>
              /\ stack'[t] = Pop(stack[t])
              /\ hook_state' = hook_state
              /\ render_trigger' = render_trigger
              /\ after_queue' = after_queue
              /\ render_scheduled' = render_scheduled
              /\ lastSet' = lastSet]_vars

\* a pass has drawn a count that has reached EffectCap and has ended: its
\* effect called the setter with an updater that returned the count as it was
C13_EffectAtCapReturned ==
    /\ render_function = "CountingCounter"
    /\ Quiescent
    /\ screen >= EffectCap

\* thread t performs wizard._render_trigger.set(old_trigger + 1)
SetsTrigger(t) == At(t, "setState", "set_trigger") /\ stack'[t] # stack[t]

\* C14: every effective setState, from whatever thread, increases the
\* render-trigger counter by exactly one; the counter never decreases.
C14_TriggerCountsSetStates ==
    [][\A t \in Threads : SetsTrigger(t) => render_trigger' = render_trigger + 1]_vars

\* ------------------------------------------------------------------------
\* Claims about the differ and the patcher (checked under DiffSpec)
\* ------------------------------------------------------------------------

\* C6: once the patches of diff(old_vdom, new_vdom) have been applied to the
\* window that showed old_vdom, the window shows what a full render of
\* new_vdom shows: the same widgets, texts and order of children.
C6_RoundTrip ==
    diff_pc = "patched" => Shown(widgets, TkRoot) = ShownTree(new_vdom)

AllKeyed(children) == \A i \in 1..Len(children) : children[i].key # NoKey

\* new holds the children of old, all of them keyed, each unchanged, in some order
Reordered(old, new) ==
    /\ old # Absent /\ new # Absent
    /\ AllKeyed(old.children)
    /\ Len(old.children) = Len(new.children)
    /\ \A i \in 1..Len(old.children) :
          \E j \in 1..Len(new.children) : new.children[j] = old.children[i]

\* C8: when the keyed children of a parent are reordered and no child's
\* content changes, the diff holds MOVE patches only: one for each child whose
\* index changed, with its key and its old and new index, and no CREATE,
\* REMOVE, UPDATE or REPLACE patch.
C8_ReorderGivesOnlyMoves ==
    (diff_pc \in {"diffed", "patched"} /\ Reordered(old_vdom, new_vdom))
        => /\ \A n \in 1..Len(patches) : patches[n].type = "MOVE"
           /\ \A j \in 1..Len(new_vdom.children) :
                 LET key == new_vdom.children[j].key
                     i == IndexOfKey(old_vdom.children, key)
                     moves == {n \in 1..Len(patches) : patches[n].key = key}
                 IN  IF i = j
                     THEN moves = {}
                     ELSE \E n \in 1..Len(patches) :
                             /\ moves = {n}
                             /\ patches[n] = MovePatch(<<>>, key, i - 1, j - 1)

\* [a, b, c] was diffed against [c, a, b]: three MOVE patches
C8_RotationDiffed ==
    /\ diff_pc = "diffed"
    /\ Reordered(old_vdom, new_vdom)
    /\ Len(old_vdom.children) = 3
    /\ [i \in 1..3 |-> old_vdom.children[i].key] = <<"a", "b", "c">>
    /\ [i \in 1..3 |-> new_vdom.children[i].key] = <<"c", "a", "b">>
    /\ patches = <<MovePatch(<<>>, "c", 2, 0), MovePatch(<<>>, "a", 0, 1),
                   MovePatch(<<>>, "b", 1, 2)>>

\* ------------------------------------------------------------------------
\* Claims about the Stream (checked under StreamSpec)
\* ------------------------------------------------------------------------

WaitingTimers == {t \in timers : t.st = "waiting"}

\* the set calls so far form one burst on a debounced, unthrottled, live stream:
\* each call came within half the debounce delay of the one before
DebounceBurst ==
    /\ debounce_delay > 0 /\ throttle_delay = 0 /\ ~disposed
    /\ setLog # <<>>
    /\ \A i \in 1..(Len(setLog) - 1) : 2 * (setLog[i + 1][1] - setLog[i][1]) <= debounce_delay

\* C9: a burst of set calls on a debounced stream, each within d/2 of the one
\* before, notifies the subscriber exactly once, with the last value set, and
\* not before the last timer has run; a new set replaces the pending timer, so
\* at most one timer is waiting at any time.
C9_DebounceBurstNotifiesOnce ==
    /\ Cardinality(WaitingTimers) <= 1
    /\ DebounceBurst =>
          /\ Cardinality(timers) <= 1
          /\ timers # {} => notified = <<>>
          /\ timers = {} => notified = <<Last(setLog)[2]>>

\* set(1); set(2); set(3) in one burst, and the one notification has come
C9_BurstDelivered ==
    /\ DebounceBurst
    /\ Len(setLog) = 3 /\ setLog[1][2] = 1 /\ setLog[2][2] = 2 /\ setLog[3][2] = 3
    /\ setLog[3][1] > setLog[1][1]
    /\ timers = {} /\ notified = <<3>>

\* C10: whenever set has returned, the pending queue is empty and the stream
\* holds the value of the latest set call (on a stream that is not disposed):
\* no older value is kept for a later delivery.
C10_NoBacklog ==
    /\ pending_values = <<>>
    /\ (~disposed /\ setLog # <<>>) => value = Last(setLog)[2]

\* three sets at one instant on a debounced stream: the consumer has seen
\* nothing yet, and the stream holds the last value only
C10_FastProducer ==
    /\ ~disposed /\ Len(setLog) = 3
    /\ setLog[1][1] = setLog[3][1]
    /\ setLog[1][2] # setLog[3][2] /\ setLog[2][2] # setLog[3][2]
    /\ notified = <<>>
    /\ value = setLog[3][2] /\ pending_values = <<>>

\* C11: a disposed stream is inert. From a state in which dispose() has
\* returned no step changes the value (a set returns at once) and no step
\* calls the subscriber, not even the _notify of a debounce timer that was
\* under way on the timer's thread.
C11_DisposedIsInert ==
    [][disposed => (value' = value /\ notified' = notified)]_vars

\* ------------------------------------------------------------------------
\* Claims about the hooks (checked under HookSpec)
\* ------------------------------------------------------------------------

\* C12: useState, useEffect, useRef and useContext called while no component
\* is being rendered raise the no-render-context error and leave the store,
\* the effect queue and the hook ordinal as they were.
C12_NoRenderContext ==
    [][outside' # outside =>
          /\ outside'.exc = "RuntimeError"
          /\ mgr' = mgr
          /\ thread_local' = thread_local]_vars

\* useState was called by an event handler after a pass had filled the store
C12_UseStateOutsideRaised ==
    /\ outside.hook = "useState"
    /\ outside.exc = "RuntimeError"
    /\ rendered # <<>>
    /\ mgr.current_path = <<>>

\* the flush of pass i ran the effect func of component k
RanIn(i, k, func) ==
    \E j \in 1..Len(ran[i]) :
        ran[i][j].func = func /\ ran[i][j].path = ComponentPath(k)

\* C15: the dependency contract of useEffect, in diffing mode where every
\* pass flushes: the effect without deps runs in every pass; the effect
\* with deps [] runs only in the first pass of its component; the effect
\* with deps [count] runs in a pass only if count differs from the
\* previous pass.
C15_EffectDependencies ==
    use_diffing =>
        \A i \in 1..Len(ran) : \A k \in Components :
            /\ RanIn(i, k, "every")
            /\ RanIn(i, k, "once") <=> i = 1
            /\ (i > 1 /\ RanIn(i, k, "onCount"))
                   => rendered[i][k].count # rendered[i - 1][k].count

\* C16: no effect runs during expansion; every completed pass, in diffing
\* and in non-diffing mode, has run the effects its expansion queued, once
\* each, and has left the effect queue empty.
C16_EffectsFlushedPerPass ==
    /\ hook_pc = "expanded" => Len(ran) = Len(rendered) - 1
    /\ hook_pc = "idle" =>
         /\ mgr.effect_queue = <<>>
         /\ Len(ran) = Len(rendered)
         /\ \A i \in 1..Len(ran) : \A k \in Components :
                Cardinality({j \in 1..Len(ran[i]) :
                                ran[i][j].func = "every"
                                    /\ ran[i][j].path = ComponentPath(k)}) = 1

\* C17: in every render pass useRef hands the component at a render path
\* the cell it handed it in the earlier passes, and a pass that has read a
\* written value (the initial value is 0, the written value 1) is followed
\* only by passes that read it back, never by one that reads the initial
\* value again.
C17_RefCellIdentity ==
    \A i \in 1..Len(rendered) : \A j \in i..Len(rendered) : \A k \in Components :
        /\ rendered[j][k].cell = rendered[i][k].cell
        /\ rendered[i][k].current \in RefValues
               => rendered[j][k].current = rendered[i][k].current

\* Context.set has changed the value of the context in this step
ContextChanged == ContextGet(mgr') # ContextGet(mgr)

\* a render pass has expanded the components in this step, which an
\* earlier pass had rendered before
Rerendered == rendered' # rendered /\ rendered # <<>>

\* C18: useContext returns the live value. A Context.set that changes the
\* value fires the render trigger for the components that have called
\* useContext; in the next pass useContext returns the value of the
\* context to each of them; and the context never holds more than one
\* subscription for a component.
C18_LiveContext ==
    /\ [][(ContextChanged /\ rendered # <<>>)
             => mgr'.render_trigger > mgr.render_trigger]_vars
    /\ [][Rerendered =>
             \A k \in Components : Last(rendered')[k].theme = ContextGet(mgr)]_vars
    /\ [](Len(mgr.subscribers) <= Cardinality(Components))

\* ------------------------------------------------------------------------
\* Claims about the patcher and the hook store (checked under DiffSpec)
\* ------------------------------------------------------------------------

\* the entries of mgr.state made by the hooks of the component at a render
\* path: the slots of useState and useRef and the subscription of useContext
OwnedKeys(m, path) ==
    {key \in DOMAIN m.state :
        \/ key.tuple /\ key.k0 = path
        \/ ~key.tuple /\ \E n \in 0..9 : key.k1 = PathId("ctx_sub", path, n)}

\* the components whose node a REMOVE or a REPLACE patch of the pass names
RemovedComponents ==
    {k \in Keys : \E n \in 1..Len(patches) :
        patches[n].type \in {"REMOVE", "REPLACE"} /\ patches[n].path = <<Key(k)>>}

\* the entry under key of the store `before` is reclaimed in `after`
SlotReclaimed(before, after, key) ==
    /\ key \notin DOMAIN after.state
    /\ before.state[key].stream # NoObject
           => after.streams[before.state[key].stream].disposed
    /\ before.state[key].type = "useRef"
           => after.refs[before.state[key].ref] = NoneValue
    /\ before.state[key].type = "useContext"
           => \A n \in 1..Len(after.subscribers) :
                  after.subscribers[n] # before.state[key].unsubscribe

\* C19: when the patches of a pass have been applied, every hook slot of a
\* component whose node a REMOVE or REPLACE patch removed is reclaimed: the
\* slot is deleted from the store, its stream disposed, its cell cleared,
\* and its context subscription cancelled.
C19_RemovedSlotsReclaimed ==
    diff_pc = "patched" =>
        \A k \in RemovedComponents :
            \A key \in OwnedKeys(Mounted(old_vdom, new_vdom), ComponentPath(k)) :
                SlotReclaimed(Mounted(old_vdom, new_vdom), mgr, key)

\* the widget that shows the node at a path of the old tree, or NoWidget
WidgetAt(path) ==
    IF path \in DOMAIN RenderFull(old_vdom).widget_map
    THEN RenderFull(old_vdom).widget_map[path]
    ELSE NoWidget

\* in the log, the widget is destroyed only after clear_component_state
\* was called for the path
ClearedBeforeDestroyed(log, path, widget) ==
    \A j \in 1..Len(log) :
        log[j] = DestroyCall(widget) => \E i \in 1..j - 1 : log[i] = ClearCall(path)

\* C20: for every REMOVE and every REPLACE patch applied in a pass, the
\* hook state of the patch's path is cleared before the widget at that path
\* is destroyed.
C20_ClearBeforeDestroy ==
    diff_pc = "patched" =>
        \A n \in 1..Len(patches) :
            patches[n].type \in {"REMOVE", "REPLACE"} =>
                ClearedBeforeDestroyed(widgets.log, patches[n].path,
                                       WidgetAt(patches[n].path))

\* the place of a patch type in the order REMOVE, REORDER/MOVE, CREATE,
\* UPDATE, REPLACE
Category(type) ==
    CASE type = "REMOVE" -> 1
      [] type \in {"REORDER", "MOVE"} -> 2
      [] type = "CREATE" -> 3
      [] type = "UPDATE" -> 4
      [] type = "REPLACE" -> 5

\* C21: whatever order the differ emitted them in, the patches of a pass
\* are all applied, and in the order of the categories REMOVE, REORDER/MOVE,
\* CREATE, UPDATE, REPLACE: no patch of a later category is applied before
\* a patch of an earlier one.
C21_CategoryOrder ==
    diff_pc = "patched" =>
        /\ Len(widgets.applied) = Len(patches)
        /\ \A i \in 1..Len(widgets.applied) : \A j \in i..Len(widgets.applied) :
               Category(widgets.applied[i]) <= Category(widgets.applied[j])

\* a pass has applied patches that the differ emitted out of that order
C21_EmittedOutOfOrder ==
    /\ diff_pc = "patched"
    /\ widgets.applied # <<>>
    /\ \E i \in 1..Len(patches) : \E j \in i..Len(patches) :
           Category(patches[i].type) > Category(patches[j].type)

\* ------------------------------------------------------------------------
\* More claims about the Stream (checked under StreamSpec)
\* ------------------------------------------------------------------------

\* the values of q occur in r in the order they have in q
RECURSIVE InOrderOf(_, _)
InOrderOf(q, r) ==
    IF q = <<>> THEN TRUE
    ELSE IF r = <<>> THEN FALSE
    ELSE IF Head(q) = Head(r) THEN InOrderOf(Tail(q), Tail(r))
    ELSE InOrderOf(q, Tail(r))

\* the values handed to set, in the order of the calls
SetValues == [i \in 1..Len(setLog) |-> setLog[i][2]]

\* C22: the subscriber is notified of the values of the set calls in the
\* order of the calls: it is never called with the value of an earlier set
\* after it was called with the value of a later one.
C22_DeliveredInSetOrder == InOrderOf(notified, SetValues)

\* ------------------------------------------------------------------------
\* Claims about the threads of a render pass (checked under Spec)
\* ------------------------------------------------------------------------

\* C23: when a setState causes a render pass on a thread other than the UI
\* thread, every renderer and widget operation of the pass, of a full
\* render as of an application of patches, is executed on the UI thread:
\* no thread but the UI thread has ever run one
C23_WidgetOperationsOnUiThread == widget_threads \subseteq {"ui"}

\* a worker thread waits without a timeout for the main loop: in a Tk call
\* of a pass that marshals its patches, before the bounded wait
\* (winfo_toplevel, after) or after it (_render_full of the error tree)
WaitsForMainLoop(t) ==
    /\ t \in Bg
    /\ At(t, "pass", "render")
    /\ Top(stack[t]).type \in {"patches", "error"}
    /\ ~MainLoopIdle

\* C24: a render pass on a background thread that marshals its patch
\* application to the UI thread always terminates, even when the UI thread
\* waits for the lock of the render-trigger stream that the pass holds:
\* the pass is never in a wait without a timeout for the main loop while
\* the UI thread waits for that lock
C24_MarshalledPassTerminates ==
    \A t \in Bg : ~(WaitsForMainLoop(t) /\ WaitsForLock("ui", t))

\* ------------------------------------------------------------------------
\* Claims about failures in a render pass (checked under HookSpec)
\* ------------------------------------------------------------------------

\* the step is the end of a pass in which a component has failed
ComponentFailed ==
    /\ Len(errors') = Len(errors) + 1
    /\ Last(errors').stream = "pass"

\* C25: when a component returns a malformed node or raises during a
\* render pass, the failure is contained to that component: the pass goes
\* on to hand a tree to the renderer, in which the siblings of the failed
\* component are expanded as in any other pass
C25_FailureContained ==
    [][ComponentFailed =>
           /\ Len(rendered') = Len(rendered) + 1
           /\ hook_pc' = "expanded"]_vars

\* C27: when a queued effect raises during the flush, the error is
\* reported to the error boundary, and every effect queued in the pass is
\* still called, in queue order
C27_ThrowingEffectContained ==
    [][(hook_pc = "expanded" /\ hook_pc' = "idle" /\ use_diffing) =>
           /\ ran' = Append(ran, OnThread(pass_thread).effect_queue)
           /\ \A j \in 1..Len(OnThread(pass_thread).effect_queue) :
                  Throws(OnThread(pass_thread).effect_queue[j]) =>
                      \E i \in (Len(errors) + 1)..Len(errors') :
                          errors'[i] = EffectError(OnThread(pass_thread).effect_queue[j])
      ]_vars

\* a flush has called an effect that raised, has reported it, and has
\* called the effects queued behind it
C27_EffectsRanAfterThrow ==
    /\ ran # <<>>
    /\ \E j \in 1..Len(Last(ran)) :
           /\ Throws(Last(ran)[j])
           /\ j < Len(Last(ran))
           /\ \E i \in 1..Len(errors) : errors[i] = EffectError(Last(ran)[j])

\* ------------------------------------------------------------------------
\* Claims about the expansion depth (checked under Spec)
\* ------------------------------------------------------------------------

\* the step is the expansion by thread t of a tree whose component renders
\* itself
ExpandsCircular(t) ==
    /\ At(t, "pass", "expand")
    /\ stack'[t] # stack[t]
    /\ render_function = "Recursing"
    /\ UseState(t) # 0

\* C26: the expansion of a self-referential component tree ends with the
\* depth error; the pass is aborted: it goes to its end without a diff,
\* nothing is handed to the renderer, and the last committed tree and the
\* screen are left as they were
C26_DepthExceededAborts ==
    [][\A t \in Threads :
          ExpandsCircular(t) =>
              /\ Top(stack'[t]).pc = "finally"
              /\ Top(stack'[t]).type = "-"
              /\ last_vdom' = last_vdom
              /\ screen' = screen
              /\ render_count' = render_count
              /\ widget_threads' = widget_threads]_vars

\* a pass has been aborted by the depth error while a tree was committed
C26_AbortedAfterCommit ==
    /\ render_function = "Recursing"
    /\ last_vdom # NoVdom
    /\ \E t \in Threads :
           /\ At(t, "pass", "finally")
           /\ Top(stack[t]).type = "-"

\* ------------------------------------------------------------------------
\* Claims about the differ and its caches (checked under DifferSpec)
\* ------------------------------------------------------------------------

\* C28: the memoization of the differ is transparent: after every history
\* of earlier diffs on the same differ, diff(old, new) returns the patch
\* list that a differ with empty caches returns for the two trees
C28_MemoizationTransparent ==
    differ.diffs > 0 => patches = Diff(old_vdom, new_vdom, FALSE)

\* the UPDATE patch that the property diff of two nodes of equal type and
\* key is to yield: changed holds the props of new whose value differs
\* from the one of old (an absent one differs), removed the props of old
\* that new has not; no patch when both are empty
ExactPropsPatch(old, new) ==
    IF \E k \in PropNames : old.props[k] # new.props[k]
    THEN <<UpdatePatch(<<>>,
                       [k \in PropNames |->
                          IF new.props[k] # None /\ new.props[k] # old.props[k]
                          THEN new.props[k] ELSE None],
                       SelectSeq(PropOrder,
                                 LAMBDA k : old.props[k] # None /\ new.props[k] = None))>>
    ELSE <<>>

\* C29: the property diff of two nodes of equal type and key, here the
\* first diff of a differ: the changed set of the UPDATE patch is exactly
\* the props of new whose value differs from old's, the removed set
\* exactly the props of old absent in new, and the patch is emitted if and
\* only if one of the sets is not empty
C29_PropDiffExact ==
    differ.diffs = 1 => patches = ExactPropsPatch(old_vdom, new_vdom)

\* ------------------------------------------------------------------------
\* Claims about the diff of keyed children (checked under DiffSpec)
\* ------------------------------------------------------------------------

\* the patches of the latest diff at the path of the child with a key, and
\* its MOVE patches
PatchesAt(key) == SelectSeq(patches, LAMBDA p : p.path = <<Key(key)>>)
MovesOf(key) == SelectSeq(patches, LAMBDA p : p.type = "MOVE" /\ p.key = key)

\* the two trees are diffed with keys: a child of the new tree has one
KeyedDiff ==
    /\ diff_pc = "diffed"
    /\ old_vdom # Absent /\ new_vdom # Absent
    /\ \E i \in 1..Len(new_vdom.children) : new_vdom.children[i].key # NoKey

\* C30: when a new child carries a key: for each new key that old has too,
\* the two children are diffed recursively, and one MOVE patch with the two
\* indices is emitted exactly when the index of the child has changed;
\* each new key that old has not yields exactly one CREATE; each old key
\* that new has not yields exactly one REMOVE
C30_KeyedChildren ==
    KeyedDiff =>
        \A key \in Keys :
            LET in_old == HasKey(old_vdom.children, key)
                in_new == HasKey(new_vdom.children, key)
                old_idx == IndexOfKey(old_vdom.children, key)
                new_idx == IndexOfKey(new_vdom.children, key)
            IN  /\ (in_old /\ in_new) =>
                       /\ PatchesAt(key) = DiffNode(old_vdom.children[old_idx],
                                                    new_vdom.children[new_idx],
                                                    <<Key(key)>>, FALSE)
                       /\ MovesOf(key) = IF old_idx # new_idx
                                         THEN <<MovePatch(<<>>, key, old_idx - 1,
                                                          new_idx - 1)>>
                                         ELSE <<>>
                /\ (in_new /\ ~in_old) =>
                       /\ PatchesAt(key) =
                              <<CreatePatch(<<Key(key)>>, new_vdom.children[new_idx])>>
                       /\ MovesOf(key) = <<>>
                /\ (in_old /\ ~in_new) =>
                       /\ PatchesAt(key) =
                              <<RemovePatch(<<Key(key)>>, old_vdom.children[old_idx])>>
                       /\ MovesOf(key) = <<>>

\* a keyed diff with a child that has moved and changed, a new key and a
\* key that is gone
C30_MovedCreatedRemoved ==
    /\ KeyedDiff
    /\ \E key \in Keys : MovesOf(key) # <<>> /\ PatchesAt(key) # <<>>
    /\ \E i \in 1..Len(patches) : patches[i].type = "CREATE"
    /\ \E i \in 1..Len(patches) : patches[i].type = "REMOVE"

\* ------------------------------------------------------------------------
\* Claims about the hook ordinal (checked under HookSpec)
\* ------------------------------------------------------------------------

\* the hooks a component can call
HookNames == {"useState", "useEffect", "useRef", "useContext"}

\* C31: the hook ordinal is zero at the start of a component's expansion
\* and each hook call of the component advances it by exactly one: a call
\* of any of the four hooks as the first of component k leaves it at 1, and
\* the three effects that the component queues after its useState, useRef
\* and useContext carry the ordinals 3, 4 and 5
C31_OrdinalPerHookCall ==
    /\ \A k \in Components, hook \in HookNames :
           /\ Enter(mgr, ComponentPath(k)).hook_index = 0
           /\ CallHook(Enter(mgr, ComponentPath(k)), hook).hook_index = 1
    /\ hook_pc = "expanded" =>
           \A i \in 1..Len(OnThread(pass_thread).effect_queue) :
               OnThread(pass_thread).effect_queue[i].hook_index = 3 + ((i - 1) % 3)

\* ------------------------------------------------------------------------
\* Claims about the stream operators (checked under OperatorSpec)
\* ------------------------------------------------------------------------

\* the step is a set of a source after the operator op was applied
SetAfter(op) == net.op = op /\ Len(net'.sets) = Len(net.sets) + 1

\* the combination emits on this step exactly when every input has emitted
\* since the combination was created, and then one tuple of the latest
\* values of the inputs
EmitsWhenAllEmitted ==
    net'.emitted = IF net'.since = SourceIds
                   THEN Append(net.emitted, <<net'.value[1], net'.value[2]>>)
                   ELSE net.emitted

\* C32: combineLatest emits nothing until every input stream has emitted
\* at least once after the combination was created, and from then on it
\* emits one tuple of the latest values on every emission of any input,
\* whatever the emitted values are
C32_CombineLatest ==
    [][(SetAfter("combine_latest") \/ SetAfter("processor_combine_latest"))
           => EmitsWhenAllEmitted]_vars

\* the values handed to the sets of source id, in order
RECURSIVE ValuesSetOn(_, _)
ValuesSetOn(sets, id) ==
    IF sets = <<>> THEN <<>>
    ELSE IF Head(sets)[1] = id
    THEN <<Head(sets)[2]>> \o ValuesSetOn(Tail(sets), id)
    ELSE ValuesSetOn(Tail(sets), id)

\* C33: every stream operator returns a new derived stream and leaves the
\* source unchanged: the stream it returns is not the source, and the
\* subscriber the source had before is called on every set of the source
\* with the value set, as it was before the operator was applied
C33_SourceUnchanged ==
    /\ net.op # "None" => net.returned # 1
    /\ net.heard = ValuesSetOn(net.sets, 1)

\* ------------------------------------------------------------------------
\* C34  Tree caching and hooks never coexist: whenever a hook state slot
\*      exists, _create_vdom neither returns a cached tree nor stores one,
\*      so the tree handed to the differ never shows a count other than the
\*      current value of the slot of the thread the pass runs on.
\* ------------------------------------------------------------------------
SlotExists == \E t \in CacheThreads : vcache.store[t] # NoSlot

C34_NoCacheWithHooks ==
    /\ SlotExists => ~vcache.create.stored /\ ~vcache.create.cached
    /\ SlotExists => \A k \in CacheKeys : vcache.entries[k] = NoVdom
    /\ vcache.create.thread # "None" /\ vcache.handed = vcache.create.vdom =>
           vcache.handed = vcache.store[vcache.create.thread]

\* ------------------------------------------------------------------------
\* C35  After component expansion no node of the resulting tree has a
\*      component as its type, also when what a component renders is itself
\*      a component node.
\* ------------------------------------------------------------------------
RECURSIVE AllPrimitive(_)
AllPrimitive(node) ==
    /\ ~IsComponentType(node.type)
    /\ \A i \in 1..Len(node.children) : AllPrimitive(node.children[i])

C35_ExpandedIsPrimitive ==
    expansion.pc = "expanded" => AllPrimitive(expansion.result.vdom)

\* ------------------------------------------------------------------------
\* C36  Within one pass two component instances at different positions of
\*      the tree never get the same render path, and so never the same hook
\*      state slot.
\* ------------------------------------------------------------------------
\* full_state_id of the first useState of a component rendered at path
FirstSlot(path) == <<path, "hook_0">>

C36_DistinctPaths ==
    expansion.pc = "expanded" =>
        \A i, j \in 1..Len(expansion.result.renders) :
            i # j => FirstSlot(expansion.result.renders[i].path)
                         # FirstSlot(expansion.result.renders[j].path)

\* ------------------------------------------------------------------------
\* C37  Diff completeness: when diff(A, B) of two trees (neither is None)
\*      returns the empty patch list, A and B are equal in type, key,
\*      props and children, whether the children are diffed by key or by
\*      index.
\* ------------------------------------------------------------------------
C37_EmptyDiffMeansEqual ==
    (/\ diff_pc = "diffed"
     /\ old_vdom # Absent /\ new_vdom # Absent
     /\ patches = <<>>) => old_vdom = new_vdom

\* ------------------------------------------------------------------------
\* C38  After render_app has drawn the first tree, last_vdom is a tree (the
\*      one that was rendered), so no pass that a setState triggers reaches
\*      the renderer as a full rebuild.
\* ------------------------------------------------------------------------
TriggeredPassAt(t, i) ==
    /\ stack[t][i].op = "pass"
    /\ stack[t][i].kind # "initial"
    /\ stack[t][i].pc = "render"

C38_InitialTreeCommitted ==
    /\ render_count >= 1 => last_vdom # NoVdom
    /\ \A t \in Threads : \A i \in 1..Len(stack[t]) :
           TriggeredPassAt(t, i) => stack[t][i].type # "full"

\* ------------------------------------------------------------------------
\* C39  clear_component_state() with no arguments completes without error
\*      whatever the hook store holds, and afterwards every hook stream is
\*      disposed and the hook store, the table of component instances and
\*      the context registry are empty.
\* ------------------------------------------------------------------------
C39_ClearAllCompletes ==
    hook_pc = "disposed" =>
        /\ mgr.exc = "None"
        /\ \A i \in 1..Len(mgr.streams) : mgr.streams[i].disposed
        /\ mgr.state = EmptyMap
        /\ lifecycle.instances = EmptyMap
        /\ mgr.contexts = NoContext

\* ------------------------------------------------------------------------
\* C40  A class component rendered again and again at one path and key
\*      keeps one instance, whose on_mount runs once; and a call of
\*      clear_component_state for the path of the component unmounts the
\*      instance (on_unmount runs once) and removes it from the table.
\* ------------------------------------------------------------------------
InstancesOf(l, k) == {key \in DOMAIN l.instances : l.instances[key].class = k}

\* clear_component_state(path of k) is called while k has an instance
PathCleared(k) ==
    /\ Len(lifecycle'.path_clears) = Len(lifecycle.path_clears) + 1
    /\ lifecycle'.path_clears[Len(lifecycle'.path_clears)] = k
    /\ InstancesOf(lifecycle, k) # {}

C40_OneInstance ==
    \A k \in Components :
        /\ Cardinality(InstancesOf(lifecycle, k)) <= 1
        /\ lifecycle.on_mount[k] <= 1
        /\ InstancesOf(lifecycle, k) # {} => lifecycle.on_mount[k] = 1

C40_ClassLifecycle ==
    /\ []C40_OneInstance
    /\ [][\A k \in Components :
             PathCleared(k) =>
                 /\ InstancesOf(lifecycle', k) = {}
                 /\ lifecycle'.on_unmount[k] = lifecycle.on_unmount[k] + 1]_vars

====
